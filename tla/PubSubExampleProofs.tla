------------------------ MODULE PubSubExampleProofs ------------------------
(***************************************************************************)
(* Proofs about the reconnecting example: it uses the client as            *)
(* AsyncClient says, its reconnecting ends, and it gives up no connection  *)
(* that stands.                                                            *)
(***************************************************************************)
EXTENDS AsyncBeltProofs, PubSubExample

(***************************************************************************)
(* The example's client is AsyncClient                                     *)
(***************************************************************************)
LEMMA ClientStep == [ExampleNext]_allVars => [Next]_vars
<1> SUFFICES ASSUME [ExampleNext]_allVars PROVE [Next]_vars
  OBVIOUS
<1>1. CASE Reconnect \/ Connect \/ Subscribe \/ PublishTimeout
  BY <1>1 DEF Reconnect, Connect, Subscribe, PublishTimeout, Next, Application
<1>2. CASE Refused \/ Connected \/ TimerRuns \/ \E timer \in Timer : Expires(timer)
  BY <1>2 DEF Refused, Connected, TimerRuns, Expires
<1>3. CASE Client
  BY <1>3 DEF Client, Next, Service, Callbacks
<1>4. CASE ConnectAnswered \/ Broken \/ Carry
  BY <1>4 DEF ConnectAnswered, Broken, Carry, Next, Kernel
<1>5. CASE UNCHANGED allVars
  BY <1>5 DEF allVars
<1> QED
  BY <1>1, <1>2, <1>3, <1>4, <1>5 DEF ExampleNext

\* Whatever holds of AsyncClient holds of the example's client: its calls come
\* where an application may call, and nothing it does is not the client's.
THEOREM ExampleRunsClient == ExampleSpec => Spec
<1>1. ExampleInit => Init
  BY DEF ExampleInit
<1> QED
  BY <1>1, ClientStep, PTL DEF ExampleSpec, Spec

(***************************************************************************)
(* The completion queue and connects                                       *)
(*                                                                         *)
(* A connect's completion parts the queue: what waits before it is of an   *)
(* older connection, and comes to a client that is still Connecting.       *)
(***************************************************************************)

\* No connect has ended; one has, with the result r.
NoneEnded(q) == \A i \in 1..Len(q) : q[i].op # "connect"
OneEnded(q, r) ==
    \E i \in 1..Len(q) : /\ q[i].op = "connect" /\ q[i].res = r
                         /\ \A j \in 1..Len(q) : q[j].op = "connect" => j = i

\* The completions after those of connects.
Since(q) == {x \in Waiting(q) :
                \E i \in 1..Len(q) : x = q[i] /\ \A j \in i..Len(q) : q[j].op # "connect"}

LEMMA AppendIs ==
    ASSUME NEW q \in Seq(Completion), NEW x \in Completion
    PROVE  /\ Append(q, x) \in Seq(Completion) /\ Len(q) \in Nat
           /\ Len(Append(q, x)) = Len(q) + 1
           /\ Append(q, x)[Len(q) + 1] = x
           /\ \A i \in 1..Len(q) : Append(q, x)[i] = q[i]
BY AppendProperties, LenProperties

LEMMA TailIs ==
    ASSUME NEW q \in Seq(Completion), q # <<>>
    PROVE  /\ Tail(q) \in Seq(Completion) /\ Len(q) \in Nat \ {0}
           /\ Len(Tail(q)) = Len(q) - 1 /\ Head(q) = q[1] /\ Head(q) \in Completion
           /\ \A i \in 1..Len(Tail(q)) : Tail(q)[i] = q[i + 1]
BY HeadTailProperties, EmptySeq, ElementOfSeq

LEMMA EndedAppend ==
    ASSUME NEW q \in Seq(Completion), NEW x \in Completion
    PROVE  /\ x.op # "connect" /\ NoneEnded(q) => NoneEnded(Append(q, x))
           /\ \A r : x.op # "connect" /\ OneEnded(q, r) => OneEnded(Append(q, x), r)
           /\ x.op = "connect" /\ NoneEnded(q) => OneEnded(Append(q, x), x.res)
<1> DEFINE a == Append(q, x)
           n == Len(q)
<1>1. /\ n \in Nat /\ Len(a) = n + 1 /\ a[n + 1] = x /\ \A i \in 1..n : a[i] = q[i]
  BY AppendIs
<1> HIDE DEF a, n
<1>2. \A i \in 1..(n + 1) : i \in 1..n \/ i = n + 1
  BY <1>1
<1>3. x.op # "connect" /\ NoneEnded(q) => NoneEnded(a)
  BY <1>1, <1>2 DEF NoneEnded, n
<1>4. ASSUME NEW r, x.op # "connect", OneEnded(q, r) PROVE OneEnded(a, r)
  <2>1. PICK i \in 1..n : /\ q[i].op = "connect" /\ q[i].res = r
                          /\ \A j \in 1..n : q[j].op = "connect" => j = i
    BY <1>4 DEF OneEnded, n
  <2>2. i \in 1..(n + 1) /\ a[i] = q[i]
    BY <1>1, <2>1
  <2>3. \A j \in 1..(n + 1) : a[j].op = "connect" => j = i
    BY <1>1, <1>2, <1>4, <2>1
  <2> QED
    BY <1>1, <2>1, <2>2, <2>3 DEF OneEnded
<1>5. ASSUME x.op = "connect", NoneEnded(q) PROVE OneEnded(a, x.res)
  <2>1. n + 1 \in 1..(n + 1)
    BY <1>1
  <2>2. \A j \in 1..(n + 1) : a[j].op = "connect" => j = n + 1
    BY <1>1, <1>2, <1>5 DEF NoneEnded, n
  <2> QED
    BY <1>1, <1>5, <2>1, <2>2 DEF OneEnded
<1> QED
  BY <1>3, <1>4, <1>5 DEF a

LEMMA EndedShift ==
    ASSUME NEW q \in Seq(Completion), q # <<>>
    PROVE  /\ NoneEnded(q) => NoneEnded(Tail(q)) /\ Head(q).op # "connect"
           /\ \A r : OneEnded(q, r) =>
                  /\ Head(q).op = "connect" => Head(q).res = r /\ NoneEnded(Tail(q))
                  /\ Head(q).op # "connect" => OneEnded(Tail(q), r)
<1> DEFINE t == Tail(q)
           n == Len(q)
<1>1. /\ n \in Nat \ {0} /\ Len(t) = n - 1 /\ Head(q) = q[1]
      /\ \A i \in 1..(n - 1) : t[i] = q[i + 1]
  BY TailIs
<1> HIDE DEF t, n
<1>2. \A i \in 1..(n - 1) : i + 1 \in 1..n /\ i + 1 # 1
  BY <1>1
<1>3. 1 \in 1..n /\ \A i \in 1..n : i # 1 => i - 1 \in 1..(n - 1) /\ (i - 1) + 1 = i
  BY <1>1
<1>4. NoneEnded(q) => NoneEnded(t) /\ Head(q).op # "connect"
  BY <1>1, <1>2, <1>3 DEF NoneEnded, n
<1>5. ASSUME NEW r, OneEnded(q, r)
      PROVE  /\ Head(q).op = "connect" => Head(q).res = r /\ NoneEnded(t)
             /\ Head(q).op # "connect" => OneEnded(t, r)
  <2>1. PICK i \in 1..n : /\ q[i].op = "connect" /\ q[i].res = r
                          /\ \A j \in 1..n : q[j].op = "connect" => j = i
    BY <1>5 DEF OneEnded, n
  <2>2. ASSUME Head(q).op = "connect" PROVE Head(q).res = r /\ NoneEnded(t)
    <3>1. i = 1
      BY <1>1, <1>3, <2>1, <2>2
    <3>2. \A j \in 1..(n - 1) : t[j].op # "connect"
      BY <1>1, <1>2, <2>1, <3>1
    <3> QED
      BY <1>1, <2>1, <3>1, <3>2 DEF NoneEnded
  <2>3. ASSUME Head(q).op # "connect" PROVE OneEnded(t, r)
    <3>1. i # 1
      BY <1>1, <2>1, <2>3
    <3>2. i - 1 \in 1..(n - 1) /\ t[i - 1] = q[i]
      BY <1>1, <1>3, <3>1
    <3>3. ASSUME NEW j \in 1..(n - 1), t[j].op = "connect" PROVE j = i - 1
      <4>1. j + 1 = i
        BY <1>1, <1>2, <2>1, <3>3
      <4> QED
        BY <4>1
    <3> QED
      BY <1>1, <2>1, <3>2, <3>3 DEF OneEnded
  <2> QED
    BY <2>2, <2>3
<1> QED
  BY <1>4, <1>5 DEF t

LEMMA SinceAppend ==
    ASSUME NEW q \in Seq(Completion), NEW x \in Completion
    PROVE  /\ Since(Append(q, x)) \subseteq Since(q) \cup {x}
           /\ x.op = "connect" => Since(Append(q, x)) = {}
<1> DEFINE a == Append(q, x)
           n == Len(q)
<1>1. /\ n \in Nat /\ Len(a) = n + 1 /\ a[n + 1] = x /\ \A i \in 1..n : a[i] = q[i]
  BY AppendIs
<1> HIDE DEF a, n
<1>2. ASSUME NEW y \in Since(a) PROVE (y \in Since(q) \/ y = x) /\ x.op # "connect"
  <2>1. PICK i \in 1..(n + 1) : y = a[i] /\ \A j \in i..(n + 1) : a[j].op # "connect"
    BY <1>1, <1>2 DEF Since
  <2>2. n + 1 \in i..(n + 1)
    BY <1>1
  <2>3. x.op # "connect"
    BY <1>1, <2>1, <2>2
  <2>4. CASE i \in 1..n
    <3>1. \A j \in i..n : j \in i..(n + 1) /\ j \in 1..n
      BY <1>1, <2>4
    <3>2. y = q[i] /\ \A j \in i..n : q[j].op # "connect"
      BY <1>1, <2>1, <2>4, <3>1
    <3>3. y \in Waiting(q)
      BY <2>4, <3>2 DEF Waiting, n
    <3> QED
      BY <2>3, <2>4, <3>2, <3>3 DEF Since, n
  <2>5. CASE i = n + 1
    BY <1>1, <2>1, <2>3, <2>5
  <2> QED
    BY <1>1, <2>4, <2>5
<1> QED
  BY <1>2 DEF a

LEMMA SinceTail ==
    ASSUME NEW q \in Seq(Completion), q # <<>>
    PROVE  /\ Since(Tail(q)) \subseteq Since(q)
           /\ NoneEnded(q) => Head(q) \in Since(q)
<1> DEFINE t == Tail(q)
           n == Len(q)
<1>1. /\ n \in Nat \ {0} /\ Len(t) = n - 1 /\ Head(q) = q[1]
      /\ \A i \in 1..(n - 1) : t[i] = q[i + 1]
  BY TailIs
<1> HIDE DEF t, n
<1>2. ASSUME NEW y \in Since(t) PROVE y \in Since(q)
  <2>1. PICK i \in 1..(n - 1) : y = t[i] /\ \A j \in i..(n - 1) : t[j].op # "connect"
    BY <1>1, <1>2 DEF Since
  <2>2. i + 1 \in 1..n /\ y = q[i + 1]
    BY <1>1, <2>1
  <2>3. ASSUME NEW j \in (i + 1)..n PROVE q[j].op # "connect"
    <3>1. j - 1 \in i..(n - 1) /\ j - 1 \in 1..(n - 1) /\ (j - 1) + 1 = j
      BY <1>1
    <3> QED
      BY <1>1, <2>1, <3>1
  <2>4. y \in Waiting(q)
    BY <2>2 DEF Waiting, n
  <2> QED
    BY <2>2, <2>3, <2>4 DEF Since, n
<1>3. ASSUME NoneEnded(q) PROVE Head(q) \in Since(q)
  <2>1. 1 \in 1..n /\ \A j \in 1..n : q[j].op # "connect"
    BY <1>1, <1>3 DEF NoneEnded, n
  <2>2. q[1] \in Waiting(q)
    BY <2>1 DEF Waiting, n
  <2> QED
    BY <1>1, <2>1, <2>2 DEF Since, n
<1> QED
  BY <1>2, <1>3 DEF t

\* The client is Connecting while its connect is under way, on a socket that
\* tells how far it came.
Attempt(st, sk, q) ==
    /\ st \in {"Unconnected", "Closed"} => NoneEnded(q) /\ sk \in {"closed", "unconnected"}
    /\ st = "Connected" => NoneEnded(q) /\ sk \in {"open", "broken"}
    /\ st = "Connecting" =>
           \/ sk = "connecting" /\ NoneEnded(q)
           \/ sk = "unconnected" /\ OneEnded(q, "failed")
           \/ sk \in {"open", "broken"} /\ OneEnded(q, "ok")

AttemptInv == Attempt(state, sock, ready) /\ (~Linked => inFlight = <<>>)

\* No operation fails on a connection that stands: those that failed are older.
SoundInv == sock = "open" => \A x \in Since(ready) : x.res = "ok"

LEMMA AttemptAppend ==
    ASSUME NEW q \in Seq(Completion), NEW x \in Completion, x.op # "connect",
           NEW st, NEW sk, Attempt(st, sk, q)
    PROVE  Attempt(st, sk, Append(q, x))
BY EndedAppend DEF Attempt

LEMMA AttemptTail ==
    ASSUME NEW q \in Seq(Completion), q # <<>>, Head(q).op # "connect",
           NEW st, NEW sk, Attempt(st, sk, q)
    PROVE  Attempt(st, sk, Tail(q))
BY EndedShift DEF Attempt

\* How a step of the client changes the queue, but for those of a connect and of
\* a disconnect: a completion leaves it, one is added that succeeded, or one that
\* failed on a socket that is not open.
Leaves == ready # <<>> /\ Head(ready).op # "connect"
Joins(q, x) ==
    /\ ready' = Append(q, x) /\ x \in Completion /\ x.op # "connect"
    /\ x.res = "ok" \/ sock # "open"
Moves(S) ==
    \/ UNCHANGED ready
    \/ Leaves /\ ready' = Tail(ready)
    \/ \E x \in S : Joins(ready, x)
    \/ Leaves /\ \E x \in S : Joins(Tail(ready), x)

LEMMA MovesKeep ==
    ASSUME TypeInv, AttemptInv, SoundInv, NEW S, Moves(S), UNCHANGED <<state, sock>>,
           ~Linked => inFlight' = <<>>
    PROVE  AttemptInv' /\ SoundInv'
<1>q. ready \in Seq(Completion)
  BY DEF TypeInv, TypeOK, StreamTypes
<1> DEFINE Good(q) == /\ q \in Seq(Completion) /\ Attempt(state, sock, q)
                      /\ sock = "open" => \A x \in Since(q) : x.res = "ok"
<1>0. Good(ready)
  BY <1>q DEF AttemptInv, SoundInv
<1>1. ASSUME ready # <<>>, Head(ready).op # "connect" PROVE Good(Tail(ready))
  <2>1. Tail(ready) \in Seq(Completion)
    BY <1>q, <1>1, TailIs
  <2>2. Attempt(state, sock, Tail(ready))
    BY <1>q, <1>0, <1>1, AttemptTail
  <2>3. Since(Tail(ready)) \subseteq Since(ready)
    BY <1>q, <1>1, SinceTail
  <2> QED
    BY <1>0, <2>1, <2>2, <2>3
<1>2. ASSUME NEW q, NEW x, Good(q), Joins(q, x) PROVE Good(ready')
  <2>1. ready' = Append(q, x) /\ x \in Completion /\ x.op # "connect"
    BY <1>2 DEF Joins
  <2>2. ready' \in Seq(Completion)
    BY <1>2, <2>1, AppendIs
  <2>3. Attempt(state, sock, ready')
    BY <1>2, <2>1, AttemptAppend
  <2>4. Since(ready') \subseteq Since(q) \cup {x}
    BY <1>2, <2>1, SinceAppend
  <2> QED
    BY <1>2, <2>2, <2>3, <2>4 DEF Joins
<1> HIDE DEF Good
<1>3. Good(ready')
  BY <1>0, <1>1, <1>2 DEF Moves, Leaves
<1> USE DEF Good
<1> QED
  BY <1>3 DEF AttemptInv, SoundInv, Linked

\* Something from the server is on its way on this connection, or is parsed.
IsReply(x) == x.op = "read" /\ x.res = "ok"
Talking ==
    /\ Linked
    /\ \/ inFlight # <<>>
       \/ \E x \in Since(ready) : IsReply(x)
       \/ state = "Connected" /\ frame \in {"read", "reply", "unexpected"}

NoReplies == {x \in Completion : ~IsReply(x)}

LEMMA MovesNoReply ==
    ASSUME TypeInv, Moves(NoReplies), NEW y \in Since(ready'), IsReply(y)
    PROVE  y \in Since(ready)
<1>q. ready \in Seq(Completion)
  BY DEF TypeInv, TypeOK, StreamTypes
<1>1. ASSUME Leaves
      PROVE  Tail(ready) \in Seq(Completion) /\ Since(Tail(ready)) \subseteq Since(ready)
  BY <1>q, <1>1, SinceTail, TailIs DEF Leaves
<1>2. ASSUME NEW q \in Seq(Completion), NEW x \in NoReplies, Joins(q, x)
      PROVE  y \in Since(q)
  <2>1. ready' = Append(q, x) /\ x \in Completion /\ ~IsReply(x)
    BY <1>2 DEF Joins, NoReplies
  <2>2. Since(ready') \subseteq Since(q) \cup {x}
    BY <2>1, SinceAppend
  <2> QED
    BY <2>1, <2>2
<1> QED
  BY <1>q, <1>1, <1>2 DEF Moves

\* What the client and its environment do within a connection, but for reads
\* that bring something.
Within ==
    \/ doAsyncCommand \/ asyncWrite \/ asyncRead
    \/ ParsePiece \/ MisreadPiece \/ EndOfChunk
    \/ ConnectHandlerReturns \/ ReplyHandlerReturns \/ ErrorHandlerLeaves
    \/ WriteEnds \/ ReadFails
    \/ command \/ UNCHANGED vars

LEMMA FailedMoves ==
    ASSUME NEW op \in {"read", "write"}, NEW q, ready' = Append(q, Done(op, "failed")),
           sock # "open"
    PROVE  \E x \in NoReplies : Joins(q, x)
<1>1. /\ Done(op, "failed") \in Completion /\ Done(op, "failed").op = op
      /\ Done(op, "failed").res = "failed"
  BY DoneType
<1> QED
  BY <1>1 DEF Joins, NoReplies, IsReply

LEMMA WithinMoves ==
    ASSUME TypeInv, Within
    PROVE  /\ UNCHANGED <<state, sock, connects, wire, closes>>
           /\ Moves(NoReplies)
<1> USE DEF client, service, socket, history
<1>1. ASSUME UNCHANGED ready PROVE Moves(NoReplies)
  BY <1>1 DEF Moves
<1>2. ASSUME NEW op \in {"read", "write"}, CompletionOf(op), ready' = Tail(ready)
      PROVE  Moves(NoReplies)
  BY <1>2 DEF Moves, Leaves, CompletionOf
<1>3. ASSUME NEW q, WriteAll(q, ready) PROVE Moves(NoReplies)
  <2>1. UNCHANGED ready \/ (sock # "open" /\ ready' = Append(ready, Done("write", "failed")))
    BY <1>3 DEF WriteAll, Unusable
  <2> QED
    BY <1>1, <2>1, FailedMoves DEF Moves
<1>4. ASSUME processMessage(ready) PROVE Moves(NoReplies)
  <2>1. UNCHANGED ready \/ (sock # "open" /\ ready' = Append(ready, Done("read", "failed")))
    BY <1>4 DEF processMessage, Unusable
  <2> QED
    BY <1>1, <2>1, FailedMoves DEF Moves
<1>5. CASE doAsyncCommand
  BY <1>5, <1>1, <1>3 DEF doAsyncCommand
<1>6. CASE asyncWrite
  <2>1. CASE Head(ready).res = "ok"
    <3>1. Leaves /\ WriteAll(dataQueued, Tail(ready))
      BY <1>6, <2>1 DEF asyncWrite, CompletionOf, Leaves
    <3>2. \/ ready' = Tail(ready)
          \/ sock # "open" /\ ready' = Append(Tail(ready), Done("write", "failed"))
      BY <3>1 DEF WriteAll, Unusable
    <3>3. Moves(NoReplies)
      BY <3>1, <3>2, FailedMoves DEF Moves
    <3> QED
      BY <1>6, <3>3 DEF asyncWrite
  <2>2. CASE Head(ready).res # "ok"
    BY <1>6, <2>2, <1>2 DEF asyncWrite
  <2> QED
    BY <2>1, <2>2
<1>7. CASE asyncRead
  BY <1>7, <1>2 DEF asyncRead
<1>8. CASE ParsePiece \/ MisreadPiece
  BY <1>8, <1>1 DEF ParsePiece, MisreadPiece, Uncompleted
<1>9. CASE EndOfChunk \/ ConnectHandlerReturns
  BY <1>9, <1>4 DEF EndOfChunk, ConnectHandlerReturns
<1>10. CASE ReplyHandlerReturns \/ ErrorHandlerLeaves
  BY <1>10, <1>1 DEF ReplyHandlerReturns, ErrorHandlerLeaves
<1>11. CASE WriteEnds
  <2>1. CASE Complete("write", "ok")
    <3>1. /\ Done("write", "ok") \in Completion /\ Done("write", "ok").op = "write"
          /\ Done("write", "ok").res = "ok"
      BY DoneType
    <3>2. Done("write", "ok") \in NoReplies /\ Joins(ready, Done("write", "ok"))
      BY <2>1, <3>1 DEF Joins, NoReplies, IsReply, Complete
    <3> QED
      BY <1>11, <3>2 DEF WriteEnds, Moves
  <2>2. CASE sock # "open" /\ Complete("write", "failed")
    <3>1. Moves(NoReplies)
      BY <2>2, FailedMoves DEF Complete, Moves
    <3> QED
      BY <1>11, <3>1 DEF WriteEnds
  <2> QED
    BY <1>11, <2>1, <2>2 DEF WriteEnds
<1>12. CASE ReadFails
  <2>1. sock # "open" /\ ready' = Append(ready, Done("read", "failed"))
    BY <1>12 DEF ReadFails, Complete
  <2>2. Moves(NoReplies)
    BY <2>1, FailedMoves DEF Moves
  <2> QED
    BY <1>12, <2>2 DEF ReadFails
<1>13. CASE command \/ UNCHANGED vars
  BY <1>13, <1>1 DEF command, vars
<1> QED
  BY <1>5, <1>6, <1>7, <1>8, <1>9, <1>10, <1>11, <1>12, <1>13 DEF Within

LEMMA ReceiveMoves ==
    ASSUME TypeInv, ReceiveSome(0..Len(inFlight))
    PROVE  /\ UNCHANGED <<state, sock, connects, wire, closes, frame>>
           /\ Moves(Completion) /\ Linked /\ inFlight # <<>>
<1>1. /\ sock \in {"open", "broken"}
      /\ UNCHANGED <<state, sock, frame, history>>
  BY ReceiveLeaves
<1>2. PICK n \in 0..Len(inFlight), part \in BOOLEAN :
        /\ n + (IF part THEN 1 ELSE 0) <= Len(inFlight) /\ Chunk(n, part) # <<>>
        /\ ready' = Append(ready, [op |-> "read", res |-> "ok", size |-> Len(Chunk(n, part))])
  BY Received
<1> DEFINE x == [op |-> "read", res |-> "ok", size |-> Len(Chunk(n, part))]
<1>3. Len(Chunk(n, part)) \in Nat
  BY <1>2, ChunkType, LenProperties
<1>4. x \in Completion /\ Joins(ready, x)
  BY <1>2, <1>3 DEF Completion, Joins
<1>5. inFlight # <<>>
  <2>1. SUFFICES ASSUME inFlight = <<>> PROVE FALSE
    OBVIOUS
  <2>2. n = 0 /\ part = FALSE
    BY <1>2, <2>1
  <2> QED
    BY <1>2, <2>2 DEF Chunk
<1> QED
  BY <1>1, <1>4, <1>5 DEF Moves, Linked, history

LEMMA WithinTalks ==
    ASSUME TypeInv, AttemptInv, Within, Talking' PROVE Talking
<1>q. ready \in Seq(Completion)
  BY DEF TypeInv, TypeOK, StreamTypes
<1>1. UNCHANGED <<state, sock>> /\ Moves(NoReplies)
  BY WithinMoves
<1>2. UNCHANGED inFlight
  BY DEF Within, doAsyncCommand, asyncWrite, asyncRead, ParsePiece, MisreadPiece, EndOfChunk,
         ConnectHandlerReturns, ReplyHandlerReturns, ErrorHandlerLeaves, WriteEnds, ReadFails,
         command, vars, socket
<1>3. CASE frame' \in {"read", "reply", "unexpected"} /\ state = "Connected"
  <2>1. \/ frame \in {"read", "reply", "unexpected"}
        \/ asyncRead /\ Head(ready).res = "ok"
    BY <1>3 DEF Within, doAsyncCommand, asyncWrite, asyncRead, ParsePiece, MisreadPiece,
                EndOfChunk, ConnectHandlerReturns, ReplyHandlerReturns, ErrorHandlerLeaves,
                WriteEnds, ReadFails, Complete, command, vars, service
  <2>2. ASSUME asyncRead, Head(ready).res = "ok" PROVE Talking
    <3>1. ready # <<>> /\ Head(ready).op = "read"
      BY <2>2 DEF asyncRead, CompletionOf
    <3>2. NoneEnded(ready) /\ Linked
      BY <1>3 DEF AttemptInv, Attempt, Linked
    <3>3. Head(ready) \in Since(ready)
      BY <1>q, <3>1, <3>2, SinceTail
    <3> QED
      BY <2>2, <3>1, <3>2, <3>3 DEF Talking, IsReply
  <2>3. Linked
    BY <1>1 DEF Talking, Linked
  <2> QED
    BY <1>3, <2>1, <2>2, <2>3 DEF Talking
<1>4. Linked
  BY <1>1 DEF Talking, Linked
<1>5. ASSUME NEW y \in Since(ready'), IsReply(y) PROVE Talking
  <2>1. y \in Since(ready)
    BY <1>1, <1>5, MovesNoReply
  <2> QED
    BY <1>4, <1>5, <2>1 DEF Talking
<1> QED
  BY <1>1, <1>2, <1>3, <1>4, <1>5 DEF Talking

\* A client that is Connected hears of what failed on its own connection only.
LEMMA HeadFails ==
    ASSUME TypeInv, AttemptInv, SoundInv, state = "Connected",
           NEW op, CompletionOf(op), Head(ready).res # "ok"
    PROVE  sock = "broken"
<1>q. ready \in Seq(Completion) /\ ready # <<>>
  BY DEF TypeInv, TypeOK, StreamTypes, CompletionOf
<1>1. NoneEnded(ready) /\ sock \in {"open", "broken"}
  BY DEF AttemptInv, Attempt
<1>2. Head(ready) \in Since(ready)
  BY <1>q, <1>1, SinceTail
<1> QED
  BY <1>1, <1>2 DEF SoundInv

(***************************************************************************)
(* The example                                                             *)
(***************************************************************************)
Steps == {<<>>, <<"subscribe", "subscribe">>} \cup {<<s>> : s \in Step}

TodoInv ==
    /\ todo \in Steps /\ waiting \subseteq Timer /\ fired \in Seq(Timer)
    /\ breaks \in Nat /\ refusals \in Nat

LEMMA ThenIs ==
    ASSUME TodoInv, NEW s \in Step \ {"subscribe"}, Doing(s), NEW steps \in Seq(Step), Then(steps)
    PROVE  todo = <<s>> /\ todo' = steps
<1>1. todo = <<s>>
  <2>1. PICK x \in Step : todo = <<x>>
    BY DEF TodoInv, Steps, Doing
  <2> QED
    BY <2>1 DEF Doing
<1>2. Tail(todo) = <<>>
  BY <1>1
<1>3. steps \o <<>> = steps
  BY ConcatEmptySeq
<1> QED
  BY <1>1, <1>2, <1>3 DEF Then

LEMMA OneStep ==
    ASSUME NEW s
    PROVE  <<s>> # <<>> /\ Head(<<s>>) = s /\ (s \in Step => <<s>> \in Steps /\ <<s>> \in Seq(Step))
BY DEF Steps

ConnectTimers(f) == {i \in 1..Len(f) : f[i] = "connect"}
One(p) == IF p THEN 1 ELSE 0

LEMMA TimersAre ==
    ASSUME NEW f \in Seq(Timer)
    PROVE  IsFiniteSet(ConnectTimers(f)) /\ Cardinality(ConnectTimers(f)) \in Nat
<1>1. IsFiniteSet(1..Len(f))
  BY FS_Interval, LenProperties
<1>2. ConnectTimers(f) \subseteq 1..Len(f)
  BY DEF ConnectTimers
<1> QED
  BY <1>1, <1>2, FS_Subset, FS_CardinalityType

LEMMA TimersAppend ==
    ASSUME NEW f \in Seq(Timer), NEW x \in Timer
    PROVE  Cardinality(ConnectTimers(Append(f, x)))
             <= Cardinality(ConnectTimers(f)) + One(x = "connect")
<1> DEFINE n == Len(f)
           a == Append(f, x)
           S == ConnectTimers(f)
<1>1. n \in Nat /\ Len(a) = n + 1 /\ a[n + 1] = x /\ \A i \in 1..n : a[i] = f[i]
  BY AppendProperties, LenProperties
<1>2. IsFiniteSet(S) /\ Cardinality(S) \in Nat
  BY TimersAre
<1> HIDE DEF a
<1>3. \A i \in 1..(n + 1) : i \in 1..n \/ i = n + 1
  BY <1>1
<1>4. CASE x = "connect"
  <2>1. ConnectTimers(a) \subseteq S \cup {n + 1}
    BY <1>1, <1>3 DEF ConnectTimers
  <2>2. /\ IsFiniteSet(S \cup {n + 1})
        /\ Cardinality(S \cup {n + 1}) <= Cardinality(S) + 1
    <3> HIDE DEF S, n
    <3>1. /\ IsFiniteSet(S \cup {n + 1})
          /\ Cardinality(S \cup {n + 1})
               = IF n + 1 \in S THEN Cardinality(S) ELSE Cardinality(S) + 1
      BY <1>2, FS_AddElement
    <3> QED
      BY <1>2, <3>1
  <2>3. Cardinality(ConnectTimers(a)) <= Cardinality(S \cup {n + 1})
    BY <2>1, <2>2, FS_Subset
  <2>4. Cardinality(S \cup {n + 1}) \in Nat /\ Cardinality(ConnectTimers(a)) \in Nat
    BY <2>1, <2>2, FS_Subset, FS_CardinalityType
  <2> HIDE DEF S
  <2> QED
    BY <1>2, <1>4, <2>2, <2>3, <2>4 DEF One, a, S
<1>5. CASE x # "connect"
  <2>1. ConnectTimers(a) = S
    BY <1>1, <1>3, <1>5 DEF ConnectTimers
  <2> QED
    BY <1>2, <1>5, <2>1 DEF One, a
<1> QED
  BY <1>4, <1>5

LEMMA TimersTail ==
    ASSUME NEW f \in Seq(Timer), f # <<>>
    PROVE  /\ Cardinality(ConnectTimers(Tail(f))) + One(Head(f) = "connect")
                <= Cardinality(ConnectTimers(f))
           /\ Head(f) = "connect" => ConnectTimers(f) # {}
           /\ ConnectTimers(Tail(f)) # {} => ConnectTimers(f) # {}
<1> DEFINE n == Len(f)
           t == Tail(f)
           S == ConnectTimers(f)
           R == ConnectTimers(t)
           g == [i \in R |-> i + 1]
<1>1. /\ n \in Nat \ {0} /\ Len(t) = n - 1 /\ Head(f) = f[1] /\ t \in Seq(Timer)
      /\ \A i \in 1..(n - 1) : t[i] = f[i + 1]
  BY HeadTailProperties, EmptySeq
<1>2. IsFiniteSet(S) /\ Cardinality(S) \in Nat /\ IsFiniteSet(R) /\ Cardinality(R) \in Nat
  BY <1>1, TimersAre
<1> HIDE DEF t, n
<1>3. \A i \in R : i \in 1..(n - 1) /\ i + 1 \in S \ {1}
  BY <1>1 DEF ConnectTimers, n
<1>4. g \in Injection(R, S \ {1})
  <2>1. g \in [R -> S \ {1}]
    BY <1>3
  <2>2. \A i, j \in R : g[i] = g[j] => i = j
    BY <1>3
  <2> HIDE DEF g, R, S
  <2> QED
    BY <2>1, <2>2 DEF Injection, IsInjective
<1>5. /\ IsFiniteSet(S \ {1})
      /\ Cardinality(S \ {1}) = IF 1 \in S THEN Cardinality(S) - 1 ELSE Cardinality(S)
  BY <1>2, FS_RemoveElement
<1>6. Cardinality(R) <= Cardinality(S \ {1})
  <2> HIDE DEF g, R, S
  <2> QED
    BY <1>4, <1>5, FS_Injection
<1>7. Head(f) = "connect" => 1 \in S
  BY <1>1 DEF ConnectTimers, n
<1>8. Cardinality(R) + One(Head(f) = "connect") <= Cardinality(S)
  <2> HIDE DEF R, S
  <2> QED
    BY <1>2, <1>5, <1>6, <1>7 DEF One
<1>9. R # {} => S # {}
  BY <1>3
<1> QED
  BY <1>7, <1>8, <1>9 DEF t

(***************************************************************************)
(* Steps of the example                                                    *)
(***************************************************************************)
LEMMA CallsIs ==
    ASSUME NEW steps, Calls(steps)
    PROVE  /\ todo = <<>> /\ todo' = steps
           /\ UNCHANGED <<waiting, fired, breaks, refusals, role>>
BY DEF Calls

\* What the calls of the application leave to do.
LEMMA AppLeaves ==
    ASSUME TodoInv
    PROVE  /\ Reconnect => todo = <<"reconnect">> /\ todo' = <<"connect">>
           /\ Connect => todo = <<"connect">> /\ todo' \in {<<>>, <<"connected">>}
           /\ Refused => todo = <<"refused">> /\ todo' = <<>>
           /\ Connected => /\ todo = <<"connected">>
                           /\ todo' \in {<<>>, <<"subscribe", "subscribe">>}
           /\ Subscribe => /\ Doing("subscribe")
                           /\ todo' \in {<<>>, <<"subscribe">>}
           /\ PublishTimeout => todo = <<"publish">> /\ todo' = <<>>
<1>1. /\ <<>> \in Seq(Step) /\ <<"connect">> \in Seq(Step) /\ <<"connected">> \in Seq(Step)
      /\ <<"subscribe", "subscribe">> \in Seq(Step)
  BY DEF Step
<1>2. {"reconnect", "connect", "connected", "refused", "publish"} \subseteq Step \ {"subscribe"}
  BY DEF Step
<1>3. Reconnect => todo = <<"reconnect">> /\ todo' = <<"connect">>
  BY <1>1, <1>2, ThenIs DEF Reconnect
<1>4. Connect => todo = <<"connect">> /\ todo' \in {<<>>, <<"connected">>}
  BY <1>1, <1>2, ThenIs DEF Connect
<1>5. Refused => todo = <<"refused">> /\ todo' = <<>>
  BY <1>1, <1>2, ThenIs DEF Refused
<1>6. Connected => /\ todo = <<"connected">>
                   /\ todo' \in {<<>>, <<"subscribe", "subscribe">>}
  BY <1>1, <1>2, ThenIs DEF Connected
<1>7. PublishTimeout => todo = <<"publish">> /\ todo' = <<>>
  BY <1>1, <1>2, ThenIs DEF PublishTimeout
<1>8. ASSUME Subscribe PROVE todo' \in {<<>>, <<"subscribe">>}
  <2>1. todo = <<"subscribe", "subscribe">> \/ todo = <<"subscribe">>
    BY <1>8 DEF Subscribe, Doing, TodoInv, Steps
  <2>2. todo' = <<>> \o Tail(todo)
    BY <1>8 DEF Subscribe, Then
  <2>3. /\ Tail(<<"subscribe", "subscribe">>) = <<"subscribe">> /\ Tail(<<"subscribe">>) = <<>>
        /\ <<>> \o <<"subscribe">> = <<"subscribe">>
    OBVIOUS
  <2>4. <<>> \o <<>> = <<>>
    BY <1>1, ConcatEmptySeq
  <2> QED
    BY <2>1, <2>2, <2>3, <2>4
<1>9. Subscribe => Doing("subscribe")
  BY DEF Subscribe
<1> QED
  BY <1>3, <1>4, <1>5, <1>6, <1>7, <1>8, <1>9

LEMMA TodoNext == ASSUME TodoInv, [ExampleNext]_allVars PROVE TodoInv'
<1> USE DEF TodoInv
<1>1. /\ <<>> \in Steps /\ <<"subscribe", "subscribe">> \in Steps /\ <<"subscribe">> \in Steps
      /\ \A x \in Step : <<x>> \in Steps
  BY DEF Steps, Step
<1>2. {"reconnect", "connect", "connected", "refused", "publish"} \subseteq Step
  BY DEF Step
<1>3. "publish" \in Timer /\ "connect" \in Timer
  BY DEF Timer
<1>4. CASE Reconnect \/ Connect \/ Refused \/ Connected \/ Subscribe \/ PublishTimeout
  <2>1. todo' \in {<<>>, <<"connect">>, <<"connected">>, <<"subscribe">>,
                   <<"subscribe", "subscribe">>}
    BY <1>4, AppLeaves
  <2>2. todo' \in Steps
    BY <1>1, <1>2, <2>1
  <2>3. waiting' \subseteq Timer /\ UNCHANGED <<fired, breaks, refusals>>
    BY <1>3, <1>4 DEF Reconnect, Connect, Refused, Connected, Subscribe, PublishTimeout, callLater
  <2> QED
    BY <2>2, <2>3
<1>5. ASSUME NEW timer \in Timer, Expires(timer) PROVE TodoInv'
  <2>1. fired' \in Seq(Timer)
    BY <1>5, AppendProperties DEF Expires
  <2> QED
    BY <1>5, <2>1 DEF Expires
<1>6. CASE TimerRuns
  <2>1. fired' \in Seq(Timer)
    BY <1>6, HeadTailProperties DEF TimerRuns
  <2>2. todo' = <<"publish">> \/ todo' = <<"reconnect">>
    BY <1>6 DEF TimerRuns
  <2>3. todo' \in Steps
    BY <1>1, <1>2, <2>2
  <2> QED
    BY <1>6, <2>1, <2>3 DEF TimerRuns
<1>7. CASE Client
  <2>1. \E s \in {<<>>, <<"reconnect">>, <<"connected">>, <<"refused">>} : Calls(s)
    BY <1>7 DEF Client, CallsErrorHandler
  <2>2. PICK s \in {<<>>, <<"reconnect">>, <<"connected">>, <<"refused">>} : Calls(s)
    BY <2>1
  <2>3. s \in Steps
    BY <1>1, <1>2
  <2> QED
    BY <2>2, <2>3, CallsIs
<1>8. CASE Carry
  <2>1. Calls(<<>>)
    BY <1>8 DEF Carry
  <2> QED
    BY <1>1, <2>1, CallsIs
<1>9. CASE ConnectAnswered
  BY <1>9 DEF ConnectAnswered
<1>10. CASE Broken \/ UNCHANGED allVars
  BY <1>10 DEF Broken, allVars, example
<1> QED
  BY <1>4, <1>5, <1>6, <1>7, <1>8, <1>9, <1>10 DEF ExampleNext

\* The steps of the example in which the client does something within a
\* connection, and the others.
Disconnects == Reconnect /\ IsConnected /\ close
Connects == Connect /\ connect(TRUE)
Hears ==
    /\ handleAsyncConnect
    /\ Calls(IF Head(ready).res = "ok" THEN <<"connected">> ELSE <<"refused">>)
Sends == Transmit /\ UNCHANGED writing /\ Calls(<<>>)
Receives == ReceiveSome(0..Len(inFlight)) /\ Calls(<<>>)

LEMMA StepWithin ==
    ASSUME [ExampleNext]_allVars
    PROVE  \/ Within \/ Disconnects \/ Connects \/ Hears \/ ConnectAnswered
           \/ Broken \/ Sends \/ Receives
<1>1. CASE Reconnect
  BY <1>1 DEF Reconnect, Disconnects, Within
<1>2. CASE Connect
  BY <1>2 DEF Connect, Connects, Within, connectIgnored
<1>3. CASE Refused \/ Connected \/ Subscribe \/ PublishTimeout
  BY <1>3 DEF Refused, Connected, Subscribe, PublishTimeout, Within
<1>4. CASE TimerRuns \/ (\E timer \in Timer : Expires(timer)) \/ UNCHANGED allVars
  BY <1>4 DEF TimerRuns, Expires, allVars, Within
<1>5. CASE Client
  BY <1>5 DEF Client, Hears, Within
<1>6. CASE Carry
  BY <1>6 DEF Carry, Sends, Receives, Within
<1> QED
  BY <1>1, <1>2, <1>3, <1>4, <1>5, <1>6 DEF ExampleNext

\* A connection comes to an end with close: no connect is under way then.
LEMMA CloseEnds ==
    ASSUME TypeInv, AttemptInv, IsConnected, close
    PROVE  NoneEnded(ready')
<1> DEFINE R == [i \in 1..reads |-> Done("read", "aborted")]
           W == IF writing THEN <<Done("write", "aborted")>> ELSE <<>>
<1>1. ready \in Seq(Completion) /\ reads \in Nat
  BY DEF TypeInv, TypeOK, StreamTypes
<1>2. NoneEnded(ready) /\ sock # "connecting"
  BY DEF AttemptInv, Attempt, IsConnected
<1>3. ready' = ready \o R \o <<>> \o W
  BY <1>2 DEF close
<1>4. \A op \in {"read", "write"} :
        Done(op, "aborted") \in Completion /\ Done(op, "aborted").op = op
  BY DoneType
<1>5. R \in Seq(Completion) /\ Len(R) = reads /\ \A i \in 1..reads : R[i].op = "read"
  BY <1>1, <1>4
<1>6. W \in Seq(Completion) /\ NoneEnded(W)
  BY <1>4 DEF NoneEnded
<1>7. NoneEnded(R)
  BY <1>5 DEF NoneEnded
<1> HIDE DEF R, W
<1>8. ASSUME NEW p \in Seq(Completion), NEW q \in Seq(Completion), NoneEnded(p), NoneEnded(q)
      PROVE  p \o q \in Seq(Completion) /\ NoneEnded(p \o q)
  <2>1. /\ p \o q \in Seq(Completion) /\ Len(p \o q) = Len(p) + Len(q)
        /\ \A i \in 1..(Len(p) + Len(q)) :
              (p \o q)[i] = IF i <= Len(p) THEN p[i] ELSE q[i - Len(p)]
        /\ Len(p) \in Nat /\ Len(q) \in Nat
    BY ConcatProperties, LenProperties
  <2>2. ASSUME NEW i \in 1..(Len(p) + Len(q)) PROVE (p \o q)[i].op # "connect"
    <3>1. CASE i <= Len(p)
      BY <1>8, <2>1, <3>1 DEF NoneEnded
    <3>2. CASE ~(i <= Len(p))
      <4>1. i - Len(p) \in 1..Len(q)
        BY <2>1, <3>2
      <4> QED
        BY <1>8, <2>1, <3>2, <4>1 DEF NoneEnded
    <3> QED
      BY <3>1, <3>2
  <2> QED
    BY <2>1, <2>2 DEF NoneEnded
<1>9. ready \o R \in Seq(Completion) /\ NoneEnded(ready \o R)
  BY <1>1, <1>2, <1>5, <1>7, <1>8
<1>10. (ready \o R) \o <<>> = ready \o R
  BY <1>9, ConcatEmptySeq
<1> QED
  BY <1>3, <1>6, <1>8, <1>9, <1>10

\* A connect's completion comes to a client that is Connecting, with the result
\* the socket tells.
LEMMA HeadConnects ==
    ASSUME TypeInv, AttemptInv, CompletionOf("connect")
    PROVE  /\ state = "Connecting" /\ NoneEnded(Tail(ready))
           /\ Since(Tail(ready)) \subseteq Since(ready)
           /\ \/ sock \in {"open", "broken"} /\ Head(ready).res = "ok"
              \/ sock = "unconnected" /\ Head(ready).res = "failed"
<1>1. ready \in Seq(Completion) /\ ready # <<>> /\ Head(ready).op = "connect"
  BY DEF TypeInv, TypeOK, StreamTypes, CompletionOf
<1>2. ~NoneEnded(ready)
  BY <1>1, EndedShift
<1>3. state \in {"Unconnected", "Closed", "Connected", "Connecting"}
  BY DEF TypeInv, TypeOK, StatusTypes, State
<1>4. /\ state = "Connecting"
      /\ \/ sock = "unconnected" /\ OneEnded(ready, "failed")
         \/ sock \in {"open", "broken"} /\ OneEnded(ready, "ok")
  BY <1>2, <1>3 DEF AttemptInv, Attempt
<1>5. Since(Tail(ready)) \subseteq Since(ready)
  BY <1>1, SinceTail
<1>6. \A r : OneEnded(ready, r) => Head(ready).res = r /\ NoneEnded(Tail(ready))
  BY <1>1, EndedShift
<1> QED
  BY <1>4, <1>5, <1>6

\* A connect is under way on a socket that is connecting, and nothing else.
LEMMA ConnectUnderWay ==
    ASSUME TypeInv, AttemptInv, sock = "connecting"
    PROVE  state = "Connecting" /\ NoneEnded(ready) /\ inFlight = <<>>
<1>1. state \in {"Unconnected", "Closed", "Connected", "Connecting"}
  BY DEF TypeInv, TypeOK, StatusTypes, State
<1> QED
  BY <1>1 DEF AttemptInv, Attempt, Linked

LEMMA AttemptNext ==
    ASSUME TypeInv, AttemptInv, SoundInv, [ExampleNext]_allVars
    PROVE  AttemptInv' /\ SoundInv'
<1>q. ready \in Seq(Completion)
  BY DEF TypeInv, TypeOK, StreamTypes
<1>1. CASE Within
  <2>1. UNCHANGED <<state, sock>> /\ Moves(NoReplies)
    BY <1>1, WithinMoves
  <2>2. UNCHANGED inFlight
    BY <1>1 DEF Within, doAsyncCommand, asyncWrite, asyncRead, ParsePiece, MisreadPiece,
           EndOfChunk, ConnectHandlerReturns, ReplyHandlerReturns, ErrorHandlerLeaves,
           WriteEnds, ReadFails, command, vars, socket
  <2>3. ~Linked => inFlight' = <<>>
    BY <2>2 DEF AttemptInv
  <2> QED
    BY <2>1, <2>3, MovesKeep
<1>2. CASE Receives
  <2>1. /\ UNCHANGED <<state, sock>> /\ Moves(Completion) /\ Linked
    BY <1>2, ReceiveMoves DEF Receives
  <2> QED
    BY <2>1, MovesKeep
<1>3. CASE Sends
  <2>1. UNCHANGED <<state, sock, ready>> /\ Linked
    BY <1>3 DEF Sends, Transmit, Linked, client
  <2>2. Moves(Completion)
    BY <2>1 DEF Moves
  <2> QED
    BY <2>1, <2>2, MovesKeep
<1>4. CASE Broken
  <2>1. sock = "open" /\ sock' = "broken" /\ UNCHANGED <<state, ready, inFlight>>
    BY <1>4 DEF Broken, Break, client, service
  <2> QED
    BY <2>1 DEF AttemptInv, Attempt, SoundInv, Linked
<1>5. CASE Disconnects
  <2>1. NoneEnded(ready')
    BY <1>5, CloseEnds DEF Disconnects
  <2>2. state' = "Closed" /\ sock' = "closed" /\ inFlight' = <<>>
    BY <1>5 DEF Disconnects, close
  <2> QED
    BY <2>1, <2>2 DEF AttemptInv, Attempt, SoundInv
<1>6. CASE Connects
  <2>1. /\ state \in {"Unconnected", "Closed"} /\ state' = "Connecting" /\ UNCHANGED inFlight
        /\ IF Unusable THEN sock' = "connecting" /\ UNCHANGED ready
           ELSE ready' = Append(ready, Done("connect", "failed")) /\ UNCHANGED sock
    BY <1>6 DEF Connects, connect
  <2>2. NoneEnded(ready) /\ sock \in {"closed", "unconnected"} /\ inFlight = <<>>
    BY <2>1 DEF AttemptInv, Attempt, Linked
  <2> QED
    BY <2>1, <2>2 DEF Unusable, AttemptInv, Attempt, SoundInv
<1>7. CASE Hears
  <2>1. /\ CompletionOf("connect") /\ ready' = Tail(ready) /\ UNCHANGED <<sock, inFlight>>
        /\ state' = IF Head(ready).res = "ok" THEN "Connected" ELSE "Unconnected"
    BY <1>7 DEF Hears, handleAsyncConnect, NotConnected, socket
  <2>2. /\ NoneEnded(Tail(ready)) /\ Since(Tail(ready)) \subseteq Since(ready)
        /\ \/ sock \in {"open", "broken"} /\ Head(ready).res = "ok"
           \/ sock = "unconnected" /\ Head(ready).res = "failed"
    BY <2>1, HeadConnects
  <2> QED
    BY <2>1, <2>2 DEF AttemptInv, Attempt, SoundInv, Linked
<1>8. CASE ConnectAnswered
  <2>1. /\ sock = "connecting" /\ UNCHANGED <<state, inFlight>>
        /\ \/ sock' = "open" /\ ready' = Append(ready, Done("connect", "ok"))
           \/ sock' = "unconnected" /\ ready' = Append(ready, Done("connect", "failed"))
    BY <1>8 DEF ConnectAnswered, ConnectEnds, Complete, client
  <2>2. state = "Connecting" /\ NoneEnded(ready) /\ inFlight = <<>>
    BY <2>1, ConnectUnderWay
  <2>3. ASSUME NEW res \in {"ok", "failed"}
        PROVE  LET x == Done("connect", res) IN x \in Completion /\ x.op = "connect" /\ x.res = res
    BY DoneType
  <2>4. CASE sock' = "open" /\ ready' = Append(ready, Done("connect", "ok"))
    <3>1. OneEnded(ready', "ok") /\ Since(ready') = {}
      BY <1>q, <2>2, <2>3, <2>4, EndedAppend, SinceAppend
    <3> QED
      BY <2>1, <2>2, <2>4, <3>1 DEF AttemptInv, Attempt, SoundInv
  <2>5. CASE sock' = "unconnected" /\ ready' = Append(ready, Done("connect", "failed"))
    <3>1. OneEnded(ready', "failed")
      BY <1>q, <2>2, <2>3, <2>5, EndedAppend
    <3> QED
      BY <2>1, <2>2, <2>5, <3>1 DEF AttemptInv, Attempt, SoundInv
  <2> QED
    BY <2>1, <2>4, <2>5
<1> QED
  BY <1>1, <1>2, <1>3, <1>4, <1>5, <1>6, <1>7, <1>8, StepWithin

LEMMA ConnectTimersAppend ==
    ASSUME NEW f \in Seq(Timer), NEW x \in Timer, x # "connect", ConnectTimers(f) = {}
    PROVE  ConnectTimers(Append(f, x)) = {}
<1>1. /\ Len(f) \in Nat /\ Len(Append(f, x)) = Len(f) + 1 /\ Append(f, x)[Len(f) + 1] = x
      /\ \A i \in 1..Len(f) : Append(f, x)[i] = f[i]
  BY AppendProperties, LenProperties
<1>2. \A i \in 1..(Len(f) + 1) : i \in 1..Len(f) \/ i = Len(f) + 1
  BY <1>1
<1> QED
  BY <1>1, <1>2 DEF ConnectTimers

\* What the redis client calls: of these only connect's failure is a refusal, and
\* the handler of an error connects again.
LEMMA ClientCalls ==
    ASSUME Client
    PROVE  /\ todo = <<>> /\ UNCHANGED <<sock, inFlight, waiting, fired, breaks, refusals>>
           /\ \/ Hears
              \/ Within /\ Calls(<<>>) /\ ~Doing("refused")' /\ ~Doing("reconnect")'
              \/ /\ ~Doing("refused")'
                 /\ \/ asyncWrite /\ CallsErrorHandler(Head(ready).res # "ok")
                    \/ asyncRead /\ CallsErrorHandler(Head(ready).res \notin {"ok", "aborted"})
                    \/ /\ ParsePiece \/ MisreadPiece
                       /\ CallsErrorHandler(frame' \in {"idle", "unexpected"})
<1>1. todo = <<>> /\ UNCHANGED <<waiting, fired, breaks, refusals>>
  BY DEF Client, Calls, CallsErrorHandler
<1>2. UNCHANGED <<sock, inFlight>>
  BY DEF Client, doAsyncCommand, handleAsyncConnect, asyncWrite, asyncRead, ParsePiece,
         MisreadPiece, EndOfChunk, ConnectHandlerReturns, ReplyHandlerReturns,
         ErrorHandlerLeaves, socket
<1>3. /\ CallsErrorHandler(Head(ready).res # "ok") => ~Doing("refused")'
      /\ CallsErrorHandler(Head(ready).res \notin {"ok", "aborted"}) => ~Doing("refused")'
      /\ CallsErrorHandler(frame' \in {"idle", "unexpected"}) => ~Doing("refused")'
  BY DEF CallsErrorHandler, Calls, Doing
<1>4. Calls(<<>>) => ~Doing("refused")' /\ ~Doing("reconnect")'
  BY DEF Calls, Doing
<1>5. \/ Hears \/ (Within /\ Calls(<<>>))
      \/ asyncWrite /\ CallsErrorHandler(Head(ready).res # "ok")
      \/ asyncRead /\ CallsErrorHandler(Head(ready).res \notin {"ok", "aborted"})
      \/ /\ ParsePiece \/ MisreadPiece
         /\ CallsErrorHandler(frame' \in {"idle", "unexpected"})
  BY DEF Client, Hears, Within
<1> QED
  BY <1>1, <1>2, <1>3, <1>4, <1>5

RefusedInv ==
    \/ sock = "unconnected" \/ Doing("refused")
    \/ "connect" \in waiting \/ ConnectTimers(fired) # {}
    => refusals > 0

\* What the calls of the application do to the client.
LEMMA AppTouches ==
    ASSUME Reconnect \/ Connect \/ Refused \/ Connected \/ Subscribe \/ PublishTimeout
    PROVE  sock' \in {sock, "closed", "connecting"} /\ UNCHANGED <<fired, breaks, refusals>>
<1>1. CASE Reconnect
  BY <1>1 DEF Reconnect, close, vars, socket
<1>2. CASE Connect
  BY <1>2 DEF Connect, connect, connectIgnored, vars, socket
<1>3. CASE Refused \/ Connected
  BY <1>3 DEF Refused, Connected, vars, socket
<1>4. CASE Subscribe \/ PublishTimeout
  BY <1>4 DEF Subscribe, PublishTimeout, command, vars, socket
<1> QED
  BY <1>1, <1>2, <1>3, <1>4

\* Of these only Refused waits for the timer that connects.
LEMMA AppWaits ==
    ASSUME Reconnect \/ Connect \/ Refused \/ Connected \/ Subscribe \/ PublishTimeout
    PROVE  "connect" \in waiting' => "connect" \in waiting \/ Doing("refused")
<1>1. Reconnect \/ Connect \/ Subscribe => waiting' \subseteq waiting
  BY DEF Reconnect, Connect, Subscribe
<1>2. Connected \/ PublishTimeout => waiting' \subseteq waiting \cup {"publish"}
  BY DEF Connected, PublishTimeout, callLater
<1>3. Refused => Doing("refused")
  BY DEF Refused
<1> QED
  BY <1>1, <1>2, <1>3

LEMMA RefusedNext ==
    ASSUME TypeInv, TodoInv, AttemptInv, RefusedInv, [ExampleNext]_allVars
    PROVE  RefusedInv'
<1>f. fired \in Seq(Timer) /\ refusals \in Nat
  BY DEF TodoInv
<1>1. CASE Reconnect \/ Connect \/ Refused \/ Connected \/ Subscribe \/ PublishTimeout
  <2>1. ~Doing("refused")'
    BY <1>1, AppLeaves DEF Doing
  <2>2. "connect" \in waiting' => "connect" \in waiting \/ Doing("refused")
    BY <1>1, AppWaits
  <2>3. sock' = "unconnected" => sock = "unconnected"
    BY <1>1, AppTouches
  <2>4. UNCHANGED <<fired, refusals>>
    BY <1>1, AppTouches
  <2> QED
    BY <2>1, <2>2, <2>3, <2>4 DEF RefusedInv
<1>2. ASSUME NEW timer \in Timer, Expires(timer) PROVE RefusedInv'
  <2>1. /\ UNCHANGED <<sock, todo, refusals>> /\ timer \in waiting
        /\ waiting' = waiting \ {timer} /\ fired' = Append(fired, timer)
    BY <1>2 DEF Expires, vars, socket
  <2>2. ConnectTimers(fired') # {} => ConnectTimers(fired) # {} \/ timer = "connect"
    BY <1>f, <2>1, ConnectTimersAppend
  <2> QED
    BY <2>1, <2>2 DEF RefusedInv, Doing
<1>3. CASE TimerRuns
  <2>1. UNCHANGED <<sock, waiting, refusals>> /\ fired # <<>> /\ fired' = Tail(fired)
    BY <1>3 DEF TimerRuns, vars, socket
  <2>2. ConnectTimers(fired') # {} => ConnectTimers(fired) # {}
    BY <1>f, <2>1, TimersTail
  <2>3. ~Doing("refused")'
    BY <1>3 DEF TimerRuns, Doing
  <2> QED
    BY <2>1, <2>2, <2>3 DEF RefusedInv
<1>4. CASE Client
  <2>1. UNCHANGED <<sock, waiting, fired, refusals>>
    BY <1>4, ClientCalls
  <2>2. CASE Hears
    <3>1. CompletionOf("connect") /\ (Head(ready).res = "ok" => ~Doing("refused")')
      BY <2>2 DEF Hears, handleAsyncConnect, Calls, Doing
    <3>2. Head(ready).res # "ok" => sock = "unconnected"
      BY <3>1, HeadConnects
    <3> QED
      BY <2>1, <3>1, <3>2 DEF RefusedInv
  <2>3. CASE ~Doing("refused")'
    BY <2>1, <2>3 DEF RefusedInv
  <2> QED
    BY <1>4, <2>2, <2>3, ClientCalls
<1>5. CASE ConnectAnswered
  <2>1. /\ UNCHANGED <<todo, waiting, fired>>
        /\ IF sock' = "open" THEN UNCHANGED refusals ELSE refusals' = refusals + 1
    BY <1>5 DEF ConnectAnswered
  <2>2. CASE sock' = "open"
    BY <2>1, <2>2 DEF RefusedInv, Doing
  <2>3. CASE sock' # "open"
    <3>1. refusals' > 0
      BY <1>f, <2>1, <2>3
    <3> QED
      BY <3>1 DEF RefusedInv
  <2> QED
    BY <2>2, <2>3
<1>6. CASE Broken
  BY <1>6 DEF Broken, Break, RefusedInv, Doing
<1>7. CASE Carry
  <2>1. UNCHANGED <<waiting, fired, refusals>> /\ ~Doing("refused")'
    BY <1>7 DEF Carry, Calls, Doing
  <2>2. UNCHANGED sock
    BY <1>7, ReceiveLeaves DEF Carry, Transmit, WriteEnds, ReadFails
  <2> QED
    BY <2>1, <2>2 DEF RefusedInv
<1>8. CASE UNCHANGED allVars
  BY <1>8 DEF allVars, example, vars, socket, RefusedInv, Doing
<1> QED
  BY <1>1, <1>2, <1>3, <1>4, <1>5, <1>6, <1>7, <1>8 DEF ExampleNext

(***************************************************************************)
(* Reconnecting comes to an end                                            *)
(*                                                                         *)
(* Blame counts the connects that the client's present condition may still *)
(* lead to, and Timers those that timers stand for.  A client that is not  *)
(* connected leads to one, a refusal to one more; a connection that broke  *)
(* to one, and replies on their way to another, because they may be        *)
(* replies nobody waits for.                                               *)
(***************************************************************************)
Cause == One(sock = "broken") + One(Talking)

Blame ==
    IF state \in {"Unconnected", "Closed"} THEN 1
    ELSE IF sock = "unconnected" THEN 2
    ELSE IF state = "Connected" /\ Doing("reconnect") /\ Cause = 0 THEN 1
    ELSE Cause

Timers ==
    One("connect" \in waiting) + Cardinality(ConnectTimers(fired)) + One(Doing("refused"))

StormInv == connects + Timers + Blame <= 1 + breaks + 2 * refusals + Len(wire)

LEMMA BlameRange ==
    Cause \in 0..2 /\ Cause' \in 0..2 /\ Blame \in 0..2 /\ Blame' \in 0..2
<1>1. Cause \in 0..2 /\ Cause' \in 0..2
  BY DEF Cause, One
<1> QED
  BY <1>1 DEF Blame

LEMMA BlameGrows ==
    ASSUME UNCHANGED <<state, sock>>, Talking' => Talking
    PROVE  /\ Blame' <= Blame + 1
           /\ (state = "Connected" /\ Doing("reconnect")' => Doing("reconnect") \/ Cause > 0)
                  => Blame' <= Blame
<1>1. Cause' <= Cause
  BY DEF Cause, One
<1>2. Cause \in 0..2 /\ Cause' \in 0..2
  BY BlameRange
<1> QED
  BY <1>1, <1>2 DEF Blame

LEMMA Counts ==
    ASSUME TypeInv, TodoInv
    PROVE  /\ connects \in Nat /\ breaks \in Nat /\ refusals \in Nat
           /\ wire \in Seq(Cmd) /\ Len(wire) \in Nat
           /\ Cardinality(ConnectTimers(fired)) \in Nat /\ Timers \in Nat
<1>1. connects \in Nat /\ breaks \in Nat /\ refusals \in Nat /\ wire \in Seq(Cmd)
  BY MaxConnectsAssumption DEF TypeInv, TypeOK, StatusTypes, CommandTypes, TodoInv
<1>2. Cardinality(ConnectTimers(fired)) \in Nat
  BY TimersAre DEF TodoInv
<1> QED
  BY <1>1, <1>2, LenProperties DEF Timers, One

LEMMA TimersNat == ASSUME TodoInv' PROVE Timers' \in Nat
<1>1. (fired \in Seq(Timer))'
  BY DEF TodoInv
<1>2. Cardinality(ConnectTimers(fired')) \in Nat
  BY <1>1, TimersAre
<1> QED
  BY <1>2 DEF Timers, One

LEMMA AppTimers ==
    ASSUME TypeInv, TodoInv,
           Reconnect \/ Connect \/ Refused \/ Connected \/ Subscribe \/ PublishTimeout
    PROVE  Timers' <= Timers /\ ~Doing("reconnect")' /\ UNCHANGED <<breaks, refusals>>
<1>1. ~Doing("refused")' /\ ~Doing("reconnect")'
  BY AppLeaves DEF Doing
<1>2. "connect" \in waiting' => "connect" \in waiting \/ Doing("refused")
  BY AppWaits
<1>3. UNCHANGED <<fired, breaks, refusals>>
  BY AppTouches
<1>4. Cardinality(ConnectTimers(fired)) \in Nat
  BY Counts
<1>5. Timers' = One("connect" \in waiting') + Cardinality(ConnectTimers(fired)) + 0
  BY <1>1, <1>3 DEF Timers, One
<1>6. Timers' <= Timers
  BY <1>2, <1>4, <1>5 DEF Timers, One
<1> QED
  BY <1>1, <1>3, <1>6

\* The account of a step: how much is added on either side.
LEMMA Balance ==
    ASSUME TypeInv, TodoInv, StormInv, NEW t \in Int, NEW b \in Int, NEW c \in 0..1,
           NEW r \in 0..2, Timers' <= Timers + t, Blame' <= Blame + b, Timers' \in Nat,
           connects' = connects + c, t + b + c <= r,
           1 + breaks' + 2 * refusals' + Len(wire') = 1 + breaks + 2 * refusals + Len(wire) + r
    PROVE  StormInv'
<1>1. /\ connects \in Nat /\ breaks \in Nat /\ refusals \in Nat /\ Len(wire) \in Nat
      /\ Timers \in Nat /\ Blame \in 0..2 /\ Blame' \in 0..2
  BY Counts, BlameRange
<1> QED
  BY <1>1 DEF StormInv

\* The account of a step that neither connects nor adds to what may be blamed.
LEMMA Settled ==
    ASSUME TypeInv, TodoInv, TodoInv', TypeInv', StormInv, Timers' <= Timers, Blame' <= Blame,
           UNCHANGED <<connects, breaks, refusals, wire>>
    PROVE  StormInv'
<1>1. /\ connects \in Nat /\ breaks \in Nat /\ refusals \in Nat /\ Len(wire) \in Nat
      /\ Timers \in Nat /\ Blame \in 0..2 /\ Blame' \in 0..2
  BY Counts, BlameRange
<1>2. Timers' \in Nat
  BY TimersNat
<1> QED
  BY <1>1, <1>2 DEF StormInv

\* A step within a connection that calls the error handler only where something
\* is to blame.
LEMMA WithinSettled ==
    ASSUME TypeInv, TodoInv, TodoInv', TypeInv', AttemptInv, StormInv, Within,
           Timers' <= Timers, UNCHANGED <<breaks, refusals>>,
           state = "Connected" /\ Doing("reconnect")' => Doing("reconnect") \/ Cause > 0
    PROVE  StormInv'
<1>1. UNCHANGED <<state, sock, connects, wire>>
  BY WithinMoves
<1>2. Talking' => Talking
  BY WithinTalks
<1>3. Blame' <= Blame
  BY <1>1, <1>2, BlameGrows
<1> QED
  BY <1>1, <1>3, Settled

\* The error handler is called on a broken connection, or for a reply.
LEMMA ErrorBlames ==
    ASSUME TypeInv, AttemptInv, SoundInv, Client, ~Hears, state = "Connected",
           Doing("reconnect")'
    PROVE  Cause > 0
<1>1. CASE asyncWrite /\ CallsErrorHandler(Head(ready).res # "ok")
  <2>1. CompletionOf("write") /\ Head(ready).res # "ok"
    BY <1>1 DEF asyncWrite, CallsErrorHandler, Calls, Doing
  <2>2. sock = "broken"
    BY <2>1, HeadFails
  <2> QED
    BY <2>2 DEF Cause, One
<1>2. CASE asyncRead /\ CallsErrorHandler(Head(ready).res \notin {"ok", "aborted"})
  <2>1. CompletionOf("read") /\ Head(ready).res # "ok"
    BY <1>2 DEF asyncRead, CallsErrorHandler, Calls, Doing
  <2>2. sock = "broken"
    BY <2>1, HeadFails
  <2> QED
    BY <2>2 DEF Cause, One
<1>3. CASE ParsePiece \/ MisreadPiece
  <2>1. frame = "read" /\ Linked
    BY <1>3 DEF ParsePiece, MisreadPiece, AttemptInv, Attempt, Linked
  <2>2. Talking
    BY <2>1 DEF Talking
  <2> QED
    BY <2>2 DEF Cause, One
<1> QED
  BY <1>1, <1>2, <1>3, ClientCalls

LEMMA SameTimers ==
    ASSUME UNCHANGED <<waiting, fired>>, TypeInv, TodoInv
    PROVE  /\ ~Doing("refused")' => Timers' <= Timers
           /\ Doing("refused")' => Timers' <= Timers + 1
<1>1. Cardinality(ConnectTimers(fired)) \in Nat
  BY Counts
<1>2. Timers' = One("connect" \in waiting) + Cardinality(ConnectTimers(fired))
                  + One(Doing("refused")')
  BY DEF Timers
<1> QED
  BY <1>1, <1>2 DEF Timers, One

LEMMA AppStorm ==
    ASSUME TypeInv, TodoInv, TodoInv', TypeInv', AttemptInv, StormInv, [ExampleNext]_allVars,
           Reconnect \/ Connect \/ Refused \/ Connected \/ Subscribe \/ PublishTimeout
    PROVE  StormInv'
<1>1. Timers' <= Timers /\ ~Doing("reconnect")' /\ UNCHANGED <<breaks, refusals>>
  BY AppTimers
<1>2. CASE Within
  BY <1>1, <1>2, WithinSettled
<1>3. CASE Disconnects
  <2>1. state = "Connected" /\ state' = "Closed" /\ UNCHANGED <<connects, wire>>
    BY <1>3 DEF Disconnects, IsConnected, close
  <2>2. Doing("reconnect") /\ sock \in {"open", "broken"}
    BY <1>3, <2>1 DEF Disconnects, Reconnect, AttemptInv, Attempt
  <2>3. Cause \in 0..2
    BY BlameRange
  <2>4. Blame' = 1 /\ Blame >= 1
    BY <2>1, <2>2, <2>3 DEF Blame
  <2> QED
    BY <1>1, <2>1, <2>4, Settled
<1>4. CASE Connects
  <2>1. /\ state \in {"Unconnected", "Closed"} /\ state' = "Connecting"
        /\ connects' = connects + 1 /\ UNCHANGED wire
    BY <1>4 DEF Connects, connect
  <2>2. sock \in {"closed", "unconnected"}
    BY <2>1 DEF AttemptInv, Attempt
  <2>3. sock' = "connecting"
    BY <1>4, <2>2 DEF Connects, connect, Unusable
  <2>4. Cause' = 0
    BY <2>3 DEF Cause, One, Talking, Linked
  <2>5. Blame = 1 /\ Blame' = 0
    BY <2>1, <2>3, <2>4 DEF Blame
  <2>6. Timers' \in Nat
    BY TimersNat
  <2>7. /\ Timers' <= Timers + 0 /\ Blame' <= Blame + (-1) /\ 0 + (-1) + 1 <= 0
        /\ 1 + breaks' + 2 * refusals' + Len(wire') = 1 + breaks + 2 * refusals + Len(wire) + 0
    BY <1>1, <2>1, <2>5, <2>6, Counts
  <2>8. connects' = connects + 1
    BY <2>1
  <2> QED
    BY <2>6, <2>7, <2>8, Balance
<1>5. Within \/ Disconnects \/ Connects
  BY DEF Reconnect, Connect, Refused, Connected, Subscribe, PublishTimeout, Within, Disconnects,
         Connects, connectIgnored
<1> QED
  BY <1>2, <1>3, <1>4, <1>5

LEMMA TimerStorm ==
    ASSUME TypeInv, TodoInv, TodoInv', TypeInv', AttemptInv, StormInv,
           TimerRuns \/ \E timer \in Timer : Expires(timer)
    PROVE  StormInv'
<1>f. fired \in Seq(Timer) /\ Cardinality(ConnectTimers(fired)) \in Nat
      /\ Cardinality(ConnectTimers(fired')) \in Nat
  <2>1. (fired \in Seq(Timer))'
    BY DEF TodoInv
  <2> QED
    BY <2>1, TimersAre DEF TodoInv
<1>v. UNCHANGED vars /\ Within /\ UNCHANGED <<breaks, refusals>>
  BY DEF TimerRuns, Expires, Within
<1>u. UNCHANGED <<connects, wire, state, sock>>
  BY <1>v DEF vars, client, socket, history
<1>t. Talking' => Talking
  BY <1>v, WithinTalks
<1>1. ASSUME NEW timer \in Timer, Expires(timer) PROVE StormInv'
  <2>1. /\ timer \in waiting /\ waiting' = waiting \ {timer} /\ fired' = Append(fired, timer)
        /\ UNCHANGED todo
    BY <1>1 DEF Expires
  <2>2. Cardinality(ConnectTimers(fired'))
          <= Cardinality(ConnectTimers(fired)) + One(timer = "connect")
    BY <1>f, <2>1, TimersAppend
  <2>3. One(Doing("refused"))' = One(Doing("refused"))
    BY <2>1 DEF Doing, One
  <2>4. One("connect" \in waiting') + One(timer = "connect") = One("connect" \in waiting)
    BY <2>1 DEF One
  <2>5. Timers' = One("connect" \in waiting') + Cardinality(ConnectTimers(fired'))
                    + One(Doing("refused"))
    BY <2>1 DEF Timers, Doing, One
  <2>6. /\ One("connect" \in waiting') \in 0..1 /\ One("connect" \in waiting) \in 0..1
        /\ One(Doing("refused")) \in 0..1 /\ One(timer = "connect") \in 0..1
    BY DEF One
  <2>7. Timers' <= Timers
    BY <1>f, <2>2, <2>4, <2>5, <2>6 DEF Timers
  <2>8. Blame' <= Blame
    BY <1>u, <1>t, <2>1, BlameGrows DEF Doing
  <2> QED
    BY <1>v, <1>u, <2>7, <2>8, Settled
<1>2. CASE TimerRuns
  <2>1. /\ fired # <<>> /\ fired' = Tail(fired) /\ UNCHANGED waiting /\ todo = <<>>
        /\ todo' = IF Head(fired) = "publish" THEN <<"publish">> ELSE <<"reconnect">>
    BY <1>2 DEF TimerRuns
  <2>2. Head(fired) \in Timer
    BY <1>f, <2>1, HeadTailProperties
  <2>3. Cardinality(ConnectTimers(fired')) + One(Head(fired) = "connect")
          <= Cardinality(ConnectTimers(fired))
    BY <1>f, <2>1, TimersTail
  <2>4. ~Doing("refused")' /\ ~Doing("refused")
    BY <2>1 DEF Doing
  <2>5. Timers' = One("connect" \in waiting) + Cardinality(ConnectTimers(fired')) + 0
    BY <2>1, <2>4 DEF Timers, One
  <2>6. Timers = One("connect" \in waiting) + Cardinality(ConnectTimers(fired)) + 0
    BY <2>4 DEF Timers, One
  <2>7. One("connect" \in waiting) \in 0..1
    BY DEF One
  <2>8. CASE Head(fired) = "publish"
    <3>1. ~Doing("reconnect")'
      BY <2>1, <2>8 DEF Doing
    <3>2. Blame' <= Blame
      BY <1>u, <1>t, <3>1, BlameGrows
    <3>3. Timers' <= Timers
      BY <1>f, <2>3, <2>5, <2>6, <2>7, <2>8 DEF One
    <3> QED
      BY <1>v, <1>u, <3>2, <3>3, Settled
  <2>9. CASE Head(fired) = "connect"
    <3>1. Blame' <= Blame + 1
      BY <1>u, <1>t, BlameGrows
    <3>2. Timers' <= Timers + (-1) /\ Timers' \in Nat
      BY <1>f, <2>3, <2>5, <2>6, <2>7, <2>9, TimersNat DEF One
    <3>3. /\ connects' = connects + 0 /\ (-1) + 1 + 0 <= 0
          /\ 1 + breaks' + 2 * refusals' + Len(wire') = 1 + breaks + 2 * refusals + Len(wire) + 0
      BY <1>u, <1>v, Counts
    <3> QED
      BY <3>1, <3>2, <3>3, Balance
  <2> QED
    BY <2>2, <2>8, <2>9 DEF Timer
<1> QED
  BY <1>1, <1>2

LEMMA ClientStorm ==
    ASSUME TypeInv, TodoInv, TodoInv', TypeInv', AttemptInv, SoundInv, StormInv, Client
    PROVE  StormInv'
<1>1. /\ todo = <<>> /\ UNCHANGED <<sock, inFlight, waiting, fired, breaks, refusals>>
  BY ClientCalls
<1>2. CASE Hears
  <2>1. /\ CompletionOf("connect") /\ ready' = Tail(ready) /\ UNCHANGED <<connects, wire>>
        /\ IF Head(ready).res = "ok"
           THEN state' = "Connected" /\ frame' = "connected" /\ todo' = <<"connected">>
           ELSE state' = "Unconnected" /\ todo' = <<"refused">>
    BY <1>2 DEF Hears, handleAsyncConnect, NotConnected, Calls
  <2>2. /\ state = "Connecting" /\ Since(Tail(ready)) \subseteq Since(ready)
        /\ \/ sock \in {"open", "broken"} /\ Head(ready).res = "ok"
           \/ sock = "unconnected" /\ Head(ready).res = "failed"
    BY <2>1, HeadConnects
  <2>3. CASE sock \in {"open", "broken"} /\ Head(ready).res = "ok"
    <3>1. Talking' => Talking
      BY <1>1, <2>1, <2>2, <2>3 DEF Talking, Linked
    <3>2. Cause' <= Cause
      BY <1>1, <3>1 DEF Cause, One
    <3>3. ~Doing("reconnect")' /\ ~Doing("refused")'
      BY <2>1, <2>3 DEF Doing
    <3>4. Blame' = Cause' /\ Blame = Cause
      BY <1>1, <2>1, <2>2, <2>3, <3>3 DEF Blame
    <3>5. Timers' <= Timers
      BY <1>1, <3>3, SameTimers
    <3> QED
      BY <1>1, <2>1, <3>2, <3>4, <3>5, Settled
  <2>4. CASE sock = "unconnected" /\ Head(ready).res = "failed"
    <3>1. Blame = 2 /\ Blame' = 1
      BY <2>1, <2>2, <2>4 DEF Blame
    <3>2. Timers' <= Timers + 1
      <4>1. Doing("refused")'
        BY <2>1, <2>4 DEF Doing
      <4> QED
        BY <1>1, <4>1, SameTimers
    <3>3. Timers' \in Nat
      BY TimersNat
    <3>4. /\ connects' = connects + 0 /\ 1 + (-1) + 0 <= 0 /\ Blame' <= Blame + (-1)
          /\ 1 + breaks' + 2 * refusals' + Len(wire') = 1 + breaks + 2 * refusals + Len(wire) + 0
      BY <1>1, <2>1, <3>1, Counts
    <3> QED
      BY <3>2, <3>3, <3>4, Balance
  <2> QED
    BY <2>2, <2>3, <2>4
<1>3. CASE ~Hears
  <2>1. Within
    BY <1>3, ClientCalls DEF Within
  <2>2. ~Doing("refused")'
    BY <1>3, ClientCalls
  <2>3. Timers' <= Timers
    BY <1>1, <2>2, SameTimers
  <2>4. state = "Connected" /\ Doing("reconnect")' => Cause > 0
    BY <1>3, ErrorBlames
  <2> QED
    BY <1>1, <2>1, <2>3, <2>4, WithinSettled
<1> QED
  BY <1>2, <1>3

\* A refusal is paid for by the two connects it may lead to, a break and a command
\* that was sent by the one.
LEMMA KernelStorm ==
    ASSUME TypeInv, TodoInv, TodoInv', TypeInv', AttemptInv, StormInv,
           ConnectAnswered \/ Broken \/ Carry
    PROVE  StormInv'
<1>0. todo = <<>> /\ UNCHANGED <<todo, waiting, fired>>
  BY DEF ConnectAnswered, Broken, Carry, Calls
<1>d. ~Doing("reconnect") /\ ~Doing("reconnect")' /\ ~Doing("refused")'
  BY <1>0 DEF Doing
<1>t. Timers' <= Timers + 0 /\ Timers' <= Timers /\ Timers' \in Nat
  <2>1. Timers' <= Timers
    BY <1>0, <1>d, SameTimers
  <2>2. Timers \in Nat /\ Timers' \in Nat
    BY Counts, TimersNat
  <2> QED
    BY <2>1, <2>2
<1>b. Cause \in 0..2 /\ Cause' \in 0..2 /\ Blame \in 0..2 /\ Blame' \in 0..2
  BY BlameRange
<1>c. connects \in Nat /\ breaks \in Nat /\ refusals \in Nat /\ Len(wire) \in Nat
  BY Counts
<1>1. CASE ConnectAnswered
  <2>1. /\ sock = "connecting" /\ UNCHANGED <<state, frame, inFlight, connects, wire, breaks>>
        /\ IF sock' = "open" THEN UNCHANGED refusals ELSE refusals' = refusals + 1
        /\ \/ sock' = "open" /\ ready' = Append(ready, Done("connect", "ok"))
           \/ sock' = "unconnected"
    BY <1>1 DEF ConnectAnswered, ConnectEnds, Complete, client, history
  <2>2. state = "Connecting" /\ inFlight = <<>>
    BY <2>1, ConnectUnderWay
  <2>3. CASE sock' = "open" /\ ready' = Append(ready, Done("connect", "ok"))
    <3>1. Since(ready') = {}
      BY <2>3, DoneType, SinceAppend DEF TypeInv, TypeOK, StreamTypes
    <3>2. ~Talking'
      BY <2>1, <2>2, <3>1 DEF Talking
    <3>3. Cause' = 0
      BY <2>3, <3>2 DEF Cause, One
    <3>4. Blame' = 0
      BY <2>1, <2>2, <2>3, <3>3 DEF Blame
    <3> QED
      BY <1>t, <1>b, <2>1, <2>3, <3>4, Settled
  <2>4. CASE sock' = "unconnected"
    <3>1. refusals' = refusals + 1
      BY <2>1, <2>4
    <3>2. Blame' <= Blame + 2
      BY <1>b
    <3>3. /\ connects' = connects + 0 /\ 0 + 2 + 0 <= 2
          /\ 1 + breaks' + 2 * refusals' + Len(wire') = 1 + breaks + 2 * refusals + Len(wire) + 2
      <4>1. Len(wire') = Len(wire) /\ connects' = connects /\ breaks' = breaks
        BY <2>1
      <4> QED
        BY <1>c, <3>1, <4>1
    <3> QED
      BY <1>t, <3>2, <3>3, Balance
  <2> QED
    BY <2>1, <2>3, <2>4
<1>2. CASE Broken
  <2>1. /\ sock = "open" /\ sock' = "broken" /\ breaks' = breaks + 1
        /\ UNCHANGED <<state, frame, ready, inFlight, connects, wire, refusals>>
    BY <1>2 DEF Broken, Break, client, service, history
  <2>2. Talking' => Talking
    BY <2>1 DEF Talking, Linked
  <2>3. Cause' <= Cause + 1
    BY <2>1, <2>2 DEF Cause, One
  <2>4. Blame' <= Blame + 1
    BY <1>b, <1>d, <2>1, <2>3 DEF Blame
  <2>5. /\ connects' = connects + 0 /\ 0 + 1 + 0 <= 1
        /\ 1 + breaks' + 2 * refusals' + Len(wire') = 1 + breaks + 2 * refusals + Len(wire) + 1
    BY <2>1, Counts
  <2> QED
    BY <1>t, <2>4, <2>5, Balance
<1>3. CASE Sends
  <2>1. /\ wire' = Append(wire, dataWritten[sent + 1]) /\ sent < Len(dataWritten)
        /\ UNCHANGED <<state, sock, connects, breaks, refusals>>
    BY <1>3 DEF Sends, Transmit, Calls, client
  <2>2. dataWritten[sent + 1] \in Cmd
    <3>1. dataWritten \in Seq(Cmd) /\ sent \in 0..Len(dataWritten)
      BY DEF TypeInv, TypeOK, CommandTypes
    <3>2. sent + 1 \in 1..Len(dataWritten)
      BY <2>1, <3>1, LenProperties
    <3> QED
      BY <3>1, <3>2, ElementOfSeq
  <2>3. Len(wire') = Len(wire) + 1
    BY <2>1, <2>2, Counts, AppendProperties
  <2>4. Cause' <= Cause + 1
    BY <2>1 DEF Cause, One
  <2>5. Blame' <= Blame + 1
    BY <1>b, <1>d, <2>1, <2>4 DEF Blame
  <2>6. /\ connects' = connects + 0 /\ 0 + 1 + 0 <= 1
        /\ 1 + breaks' + 2 * refusals' + Len(wire') = 1 + breaks + 2 * refusals + Len(wire) + 1
    <3>1. breaks' = breaks /\ refusals' = refusals /\ connects' = connects
      BY <2>1
    <3> QED
      BY <1>c, <2>3, <3>1
  <2> QED
    BY <1>t, <2>5, <2>6, Balance
<1>4. CASE Receives
  <2>1. UNCHANGED <<state, sock, connects, wire, breaks, refusals>> /\ Talking
    BY <1>4, ReceiveMoves DEF Receives, Calls, Talking
  <2>2. Blame' <= Blame
    BY <1>d, <2>1, BlameGrows
  <2> QED
    BY <1>t, <2>1, <2>2, Settled
<1>5. CASE (WriteEnds \/ ReadFails) /\ Calls(<<>>)
  <2>1. Within /\ UNCHANGED <<breaks, refusals>>
    BY <1>5 DEF Within, Calls
  <2> QED
    BY <1>d, <1>t, <2>1, WithinSettled
<1> QED
  BY <1>1, <1>2, <1>3, <1>4, <1>5 DEF Carry, Sends, Receives

LEMMA StormNext ==
    ASSUME TypeInv, TodoInv, TypeInv', TodoInv', AttemptInv, SoundInv, StormInv,
           [ExampleNext]_allVars
    PROVE  StormInv'
<1>1. CASE UNCHANGED allVars
  BY <1>1 DEF allVars, example, vars, client, service, socket, history, StormInv, Timers, Blame,
              Cause, Talking, Linked, Doing
<1>2. CASE Reconnect \/ Connect \/ Refused \/ Connected \/ Subscribe \/ PublishTimeout
  BY <1>2, AppStorm
<1> QED
  BY <1>1, <1>2, TimerStorm, ClientStorm, KernelStorm DEF ExampleNext

(***************************************************************************)
(* Only broken connections are given up                                    *)
(***************************************************************************)

\* Who is about to reconnect on a connection that stands was refused a connect
\* once, or had something under way when the last connection was given up.
GaveUpInv ==
    Doing("reconnect") /\ state = "Connected" /\ sock = "open" => ~quiet \/ refusals > 0

LEMMA GaveUpNext ==
    ASSUME TypeInv, BeltInv, BeltInv', TodoInv, AttemptInv, SoundInv, RefusedInv, GaveUpInv,
           [ExampleNext]_allVars
    PROVE  GaveUpInv'
<1> SUFFICES ASSUME Doing("reconnect")', (state = "Connected")', (sock = "open")'
             PROVE  (~quiet \/ refusals > 0)'
  BY DEF GaveUpInv
<1>1. CASE Reconnect \/ Connect \/ Refused \/ Connected \/ Subscribe \/ PublishTimeout
  BY <1>1, AppTimers
<1>2. CASE (\E timer \in Timer : Expires(timer)) \/ UNCHANGED allVars
  BY <1>2 DEF Expires, allVars, example, vars, client, socket, history, GaveUpInv, Doing
<1>3. CASE TimerRuns
  <2>1. fired \in Seq(Timer) /\ fired # <<>>
    BY <1>3 DEF TodoInv, TimerRuns
  <2>2. Head(fired) # "publish" /\ Head(fired) \in Timer
    BY <1>3, <2>1, HeadTailProperties DEF TimerRuns, Doing
  <2>3. ConnectTimers(fired) # {}
    BY <2>1, <2>2, TimersTail DEF Timer
  <2> QED
    BY <1>3, <2>3 DEF RefusedInv, TimerRuns
<1>4. CASE Client
  <2>1. sock = "open"
    BY <1>4, ClientCalls
  <2>2. ~Hears
    BY DEF Hears, Calls, Doing
  <2>3. CASE asyncWrite /\ CallsErrorHandler(Head(ready).res # "ok")
    <3>1. CompletionOf("write") /\ Head(ready).res # "ok" /\ state = "Connected"
      BY <2>3 DEF asyncWrite, CallsErrorHandler, Calls, Doing
    <3> QED
      BY <2>1, <3>1, HeadFails
  <2>4. CASE asyncRead /\ CallsErrorHandler(Head(ready).res \notin {"ok", "aborted"})
    <3>1. CompletionOf("read") /\ Head(ready).res # "ok" /\ state = "Connected"
      BY <2>4 DEF asyncRead, CallsErrorHandler, Calls, Doing
    <3> QED
      BY <2>1, <3>1, HeadFails
  <2>5. CASE ParsePiece /\ CallsErrorHandler(frame' \in {"idle", "unexpected"})
    <3>1. frame' \in {"idle", "unexpected"}
      BY <2>5 DEF CallsErrorHandler, Calls, Doing
    <3>2. frame' # "idle"
      BY <2>5 DEF ParsePiece, doProcessMessage, Uncompleted
    <3>3. FrameInv'
      BY DEF BeltInv
    <3> QED
      BY <3>1, <3>2, <3>3 DEF FrameInv
  <2>6. CASE MisreadPiece
    BY <2>6, MisreadsUnparsable DEF BeltInv
  <2> QED
    BY <1>4, <2>2, <2>3, <2>4, <2>5, <2>6, ClientCalls
<1>5. CASE ConnectAnswered \/ Broken \/ Carry
  BY <1>5 DEF ConnectAnswered, Broken, Carry, Calls, Doing
<1> QED
  BY <1>1, <1>2, <1>3, <1>4, <1>5 DEF ExampleNext

(***************************************************************************)
(* The theorems                                                            *)
(***************************************************************************)
ExampleInv ==
    /\ TypeInv /\ BeltInv /\ TodoInv
    /\ AttemptInv /\ SoundInv /\ RefusedInv /\ StormInv /\ GaveUpInv

LEMMA ExampleInvInit == ExampleInit => ExampleInv
<1> SUFFICES ASSUME ExampleInit PROVE ExampleInv
  OBVIOUS
<1>1. TypeInv /\ BeltInv
  BY TypeInit, BeltInit DEF ExampleInit
<1>2. /\ state = "Unconnected" /\ sock = "closed" /\ ready = <<>> /\ inFlight = <<>>
      /\ connects = 0 /\ wire = <<>> /\ todo = <<"reconnect">> /\ waiting = {} /\ fired = <<>>
      /\ breaks = 0 /\ refusals = 0
  BY DEF ExampleInit, Init
<1>3. TodoInv
  BY <1>2, OneStep DEF TodoInv, Step
<1>4. AttemptInv /\ SoundInv
  BY <1>2 DEF AttemptInv, Attempt, NoneEnded, SoundInv
<1>5. ~Doing("refused") /\ ConnectTimers(fired) = {}
  BY <1>2 DEF Doing, ConnectTimers
<1>6. RefusedInv /\ GaveUpInv
  BY <1>2, <1>5 DEF RefusedInv, GaveUpInv
<1>7. StormInv
  <2>1. Timers = 0
    BY <1>2, <1>5, FS_EmptySet DEF Timers, One
  <2>2. Blame = 1
    BY <1>2 DEF Blame
  <2>3. Len(wire) = 0
    BY <1>2
  <2> QED
    BY <1>2, <2>1, <2>2, <2>3 DEF StormInv
<1> QED
  BY <1>1, <1>3, <1>4, <1>6, <1>7 DEF ExampleInv

LEMMA ExampleInvNext == ExampleInv /\ [ExampleNext]_allVars => ExampleInv'
<1> SUFFICES ASSUME ExampleInv, [ExampleNext]_allVars PROVE ExampleInv'
  OBVIOUS
<1>1. [Next]_vars
  BY ClientStep
<1>2. TypeInv' /\ BeltInv'
  BY <1>1, TypeNext, BeltNext DEF ExampleInv
<1>3. TodoInv'
  BY TodoNext DEF ExampleInv
<1>4. AttemptInv' /\ SoundInv'
  BY AttemptNext DEF ExampleInv
<1>5. RefusedInv'
  BY RefusedNext DEF ExampleInv
<1>6. StormInv'
  BY <1>2, <1>3, StormNext DEF ExampleInv
<1>7. GaveUpInv'
  BY <1>2, GaveUpNext DEF ExampleInv
<1> QED
  BY <1>2, <1>3, <1>4, <1>5, <1>6, <1>7 DEF ExampleInv

LEMMA ExampleInvAlways == ExampleSpec => []ExampleInv
BY ExampleInvInit, ExampleInvNext, PTL DEF ExampleSpec

\* Reconnecting comes to an end: however the breaks of a connection, the refused
\* connects, the timers and the completions of older connections fall, the error
\* handler and the timer of the example start connection attempts no more often
\* than that.
THEOREM NoReconnectStormCorrect == ExampleSpec => []NoReconnectStorm
<1>1. ExampleInv => NoReconnectStorm
  <2> SUFFICES ASSUME ExampleInv PROVE NoReconnectStorm
    OBVIOUS
  <2>1. /\ connects \in Nat /\ breaks \in Nat /\ refusals \in Nat /\ Len(wire) \in Nat
        /\ Timers \in Nat
    BY Counts DEF ExampleInv
  <2>2. Blame \in 0..2
    BY BlameRange
  <2> QED
    BY <2>1, <2>2 DEF ExampleInv, StormInv, NoReconnectStorm
<1> QED
  BY <1>1, ExampleInvAlways, PTL

\* The example never gives up a connection that stands, but for the two reasons
\* GivesUpBroken names: whatever calls the error handler comes from this connection,
\* and says that it is broken.
THEOREM GivesUpBrokenCorrect == ExampleSpec => GivesUpBroken
<1>1. ASSUME ExampleInv, [ExampleNext]_allVars, closes' # closes, sock = "open"
      PROVE  ~quiet \/ refusals > 0
  <2>1. Disconnects
    BY <1>1, StepWithin, WithinMoves, ReceiveMoves
       DEF ExampleInv, Connects, connect, Hears, handleAsyncConnect, ConnectAnswered, ConnectEnds,
           Broken, Break, Sends, Transmit, Receives, history
  <2>2. Doing("reconnect") /\ state = "Connected"
    BY <2>1 DEF Disconnects, Reconnect, IsConnected
  <2> QED
    BY <1>1, <2>2 DEF ExampleInv, GaveUpInv
<1>2. ExampleInv /\ [ExampleNext]_allVars
        => [closes' # closes /\ sock = "open" => ~quiet \/ refusals > 0]_allVars
  BY <1>1
<1> QED
  BY <1>2, ExampleInvAlways, PTL DEF ExampleSpec, GivesUpBroken
=============================================================================
