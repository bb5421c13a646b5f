-------------------------- MODULE AsyncClientProofs --------------------------
(***************************************************************************)
(* Proofs about AsyncClient, for every number of commands, connection      *)
(* attempts and disconnects and every set of replies the parser rejects.   *)
(***************************************************************************)
EXTENDS AsyncClient, SequenceTheorems, TLAPS

(***************************************************************************)
(* The completion queue                                                    *)
(***************************************************************************)

\* No completion in q refers to more pieces than the buffer b holds.
Fits(q, b) == \A i \in 1..Len(q) : q[i].size <= Len(b)

LEMMA DoneType ==
    ASSUME NEW op \in {"connect", "read", "write"}, NEW res \in {"ok", "some", "failed", "aborted"}
    PROVE  /\ Done(op, res) \in Completion
           /\ Done(op, res).op = op /\ Done(op, res).res = res /\ Done(op, res).size = 0
BY DEF Done, Completion

LEMMA AppendFits ==
    ASSUME NEW q \in Seq(Completion), NEW b \in Seq(Piece), Fits(q, b),
           NEW x \in Completion, x.size <= Len(b)
    PROVE  Append(q, x) \in Seq(Completion) /\ Fits(Append(q, x), b)
BY AppendProperties DEF Fits

LEMMA TailFits ==
    ASSUME NEW q \in Seq(Completion), NEW b \in Seq(Piece), Fits(q, b), q # <<>>
    PROVE  Tail(q) \in Seq(Completion) /\ Fits(Tail(q), b)
BY HeadTailProperties DEF Fits

LEMMA ConcatFits ==
    ASSUME NEW q \in Seq(Completion), NEW r \in Seq(Completion), NEW b \in Seq(Piece),
           Fits(q, b), \A i \in 1..Len(r) : r[i].size = 0
    PROVE  q \o r \in Seq(Completion) /\ Fits(q \o r, b)
<1>1. q \o r \in Seq(Completion) /\ Len(q \o r) = Len(q) + Len(r)
      /\ \A i \in 1..Len(q) + Len(r) :
           (q \o r)[i] = IF i <= Len(q) THEN q[i] ELSE r[i - Len(q)]
  BY ConcatProperties
<1>2. ASSUME NEW i \in 1..Len(q \o r) PROVE (q \o r)[i].size <= Len(b)
  <2>1. CASE i <= Len(q)
    BY <1>1, <2>1 DEF Fits
  <2>2. CASE i > Len(q)
    <3>1. i - Len(q) \in 1..Len(r)
      BY <1>1, <2>2
    <3>2. (q \o r)[i].size = 0
      BY <1>1, <2>2, <3>1
    <3> QED
      BY <3>2
  <2> QED
    BY <1>1, <2>1, <2>2
<1> QED
  BY <1>1, <1>2 DEF Fits

\* Starting a read or a write adds at most one completion, of size 0.
LEMMA StartRead ==
    ASSUME reads \in Nat, NEW q \in Seq(Completion), NEW b \in Seq(Piece),
           Fits(q, b), processMessage(q)
    PROVE  ready' \in Seq(Completion) /\ Fits(ready', b) /\ reads' \in Nat
<1>1. Append(q, Done("read", "failed")) \in Seq(Completion)
      /\ Fits(Append(q, Done("read", "failed")), b)
  BY DoneType, AppendFits
<1>2. CASE Unusable
  <2>1. ready' = Append(q, Done("read", "failed")) /\ reads' = reads
    BY <1>2 DEF processMessage
  <2> QED
    BY <1>1, <2>1
<1>3. CASE ~Unusable
  <2>1. ready' = q /\ reads' = reads + 1
    BY <1>3 DEF processMessage
  <2> QED
    BY <2>1
<1> QED
  BY <1>2, <1>3

LEMMA StartWrite ==
    ASSUME NEW q \in Seq(Completion), NEW b \in Seq(Piece), Fits(q, b),
           NEW s \in Seq(Cmd), WriteAll(s, q)
    PROVE  /\ ready' \in Seq(Completion) /\ Fits(ready', b)
           /\ dataWritten' \in Seq(Cmd) /\ dataQueued' \in Seq(Cmd)
           /\ sent' \in 0..Len(dataWritten')
<1>1. Append(q, Done("write", "failed")) \in Seq(Completion)
      /\ Fits(Append(q, Done("write", "failed")), b)
  BY DoneType, AppendFits
<1>0. ready' = q \/ ready' = Append(q, Done("write", "failed"))
  BY DEF WriteAll
<1>2. ready' \in Seq(Completion) /\ Fits(ready', b)
  <2>1. CASE ready' = q
    BY <2>1
  <2>2. CASE ready' = Append(q, Done("write", "failed"))
    BY <1>1, <2>2, Zenon
  <2> QED
    BY <1>0, <2>1, <2>2
<1>3. dataWritten' \in Seq(Cmd) /\ dataQueued' \in Seq(Cmd) /\ sent' \in 0..Len(dataWritten')
  BY DEF WriteAll
<1> QED
  BY <1>2, <1>3

(***************************************************************************)
(* Types: one lemma for each part of TypeOK                                *)
(***************************************************************************)
BufHolds == Fits(ready, buf)
TypeInv  == TypeOK /\ BufHolds

LEMMA TypeInit == Init => TypeInv
<1> SUFFICES ASSUME Init PROVE TypeInv
  OBVIOUS
<1>1. StatusTypes
  BY MaxConnectsAssumption, MaxClosesAssumption DEF Init, StatusTypes, State, Frame
<1>2. StreamTypes /\ BufHolds
  BY DEF Init, StreamTypes, BufHolds, Fits
<1>3. FlagTypes
  BY DEF Init, FlagTypes
<1>4. CommandTypes
  BY MaxCmdAssumption, EmptySeq DEF Init, CommandTypes, None, Garbage
<1> QED
  BY <1>1, <1>2, <1>3, <1>4 DEF TypeInv, TypeOK

LEMMA FlagTypesNext == ASSUME TypeInv, [Next]_vars PROVE FlagTypes'
<1>t. FlagTypes
  BY DEF TypeInv, TypeOK
<1> USE <1>t DEF FlagTypes, client, service, socket, history
<1>1. ASSUME close PROVE FlagTypes'
  BY <1>1, Zenon DEF close, NothingUnderWay
<1>2. ASSUME doAsyncCommand \/ WriteGoesOn \/ asyncWrite PROVE FlagTypes'
  BY <1>2 DEF doAsyncCommand, WriteGoesOn, asyncWrite, WriteAll
<1>3. ASSUME ParsePiece \/ MisreadPiece PROVE FlagTypes'
  BY <1>3 DEF ParsePiece, MisreadPiece, doProcessMessage, Uncompleted
<1>4. ASSUME Application, ~close PROVE FlagTypes'
  BY <1>4 DEF Application, connect, connectIgnored, command, vars
<1>5. ASSUME Callbacks PROVE FlagTypes'
  BY <1>5 DEF Callbacks, ConnectHandlerReturns, ReplyHandlerReturns, ErrorHandlerLeaves
<1>6. ASSUME handleAsyncConnect \/ asyncRead \/ EndOfChunk PROVE FlagTypes'
  BY <1>6 DEF handleAsyncConnect, NotConnected, asyncRead, EndOfChunk
<1>7. ASSUME Kernel PROVE FlagTypes'
  <2>1. ASSUME ConnectEnds \/ Break PROVE FlagTypes'
    BY <2>1 DEF ConnectEnds, Break
  <2>2. ASSUME Transmit \/ WriteEnds \/ ReadFails PROVE FlagTypes'
    BY <2>2 DEF Transmit, WriteEnds, ReadFails
  <2>3. ASSUME NEW n, NEW part \in BOOLEAN, Receive(n, part) PROVE FlagTypes'
    BY <2>3 DEF Receive
  <2> QED
    BY <1>7, <2>1, <2>2, <2>3 DEF Kernel, ReceiveSome
<1>8. CASE UNCHANGED vars
  BY <1>8 DEF vars
<1> QED
  BY <1>1, <1>2, <1>3, <1>4, <1>5, <1>6, <1>7, <1>8 DEF Next, Application, Service

LEMMA StatusTypesNext == ASSUME TypeInv, [Next]_vars PROVE StatusTypes'
<1>t. StatusTypes
  BY DEF TypeInv, TypeOK
<1> USE <1>t DEF StatusTypes, State, Frame, client, service, socket, history
<1>1. ASSUME NEW tcp \in BOOLEAN, connect(tcp) PROVE StatusTypes'
  BY <1>1, MaxConnectsAssumption DEF connect
<1>2. ASSUME close PROVE StatusTypes'
  BY <1>2, MaxClosesAssumption DEF close
<1>3. ASSUME connectIgnored \/ command PROVE StatusTypes'
  BY <1>3 DEF connectIgnored, command, vars
<1>4. ASSUME Callbacks PROVE StatusTypes'
  BY <1>4 DEF Callbacks, ConnectHandlerReturns, ReplyHandlerReturns, ErrorHandlerLeaves
<1>5. ASSUME doAsyncCommand \/ WriteGoesOn \/ asyncWrite \/ asyncRead \/ EndOfChunk
      PROVE  StatusTypes'
  BY <1>5 DEF doAsyncCommand, WriteGoesOn, asyncWrite, asyncRead, EndOfChunk
<1>6. ASSUME handleAsyncConnect PROVE StatusTypes'
  BY <1>6 DEF handleAsyncConnect, NotConnected
<1>7. ASSUME ParsePiece \/ MisreadPiece PROVE StatusTypes'
  BY <1>7 DEF ParsePiece, MisreadPiece, doProcessMessage, Uncompleted
<1>8. ASSUME Kernel PROVE StatusTypes'
  <2>1. ASSUME ConnectEnds \/ Break PROVE StatusTypes'
    BY <2>1 DEF ConnectEnds, Break
  <2>2. ASSUME Transmit \/ WriteEnds \/ ReadFails PROVE StatusTypes'
    BY <2>2 DEF Transmit, WriteEnds, ReadFails
  <2>3. ASSUME NEW n, NEW part, Receive(n, part) PROVE StatusTypes'
    BY <2>3 DEF Receive
  <2> QED
    BY <1>8, <2>1, <2>2, <2>3 DEF Kernel, ReceiveSome
<1>9. CASE UNCHANGED vars
  BY <1>9 DEF vars
<1> QED
  BY <1>1, <1>2, <1>3, <1>4, <1>5, <1>6, <1>7, <1>8, <1>9 DEF Next, Application, Service

\* A reply handler or the error handler is called: got keeps its type.
LEMMA GotType ==
    ASSUME TypeInv, NEW v \in 0..Garbage, doProcessMessage(v)
    PROVE  got' \in [Cmd -> 0..Garbage]
<1>1. CASE handlers = <<>>
  BY <1>1 DEF doProcessMessage, TypeInv, TypeOK, CommandTypes
<1>2. CASE handlers # <<>>
  <2>1. Head(handlers) \in Cmd
    BY <1>2, HeadTailProperties DEF TypeInv, TypeOK, CommandTypes
  <2>2. got' = [got EXCEPT ![Head(handlers)] = v]
    BY <1>2 DEF doProcessMessage
  <2> QED
    BY <2>1, <2>2 DEF TypeInv, TypeOK, CommandTypes
<1> QED
  BY <1>1, <1>2

LEMMA CommandTypesNext == ASSUME TypeInv, [Next]_vars PROVE CommandTypes'
<1> USE DEF TypeInv, TypeOK, CommandTypes, client, service, socket, history
<1>1. ASSUME NEW tcp \in BOOLEAN, connect(tcp) PROVE CommandTypes'
  BY <1>1 DEF connect
<1>2. ASSUME close PROVE CommandTypes'
  BY <1>2 DEF close, ClearHandlers
<1>3. ASSUME connectIgnored PROVE CommandTypes'
  BY <1>3 DEF connectIgnored, vars
<1>4. ASSUME command PROVE CommandTypes'
  BY <1>4, MaxCmdAssumption DEF command, Cmd
<1>5. ASSUME doAsyncCommand PROVE CommandTypes'
  <2>1. Head(strandQ) \in Cmd /\ Tail(strandQ) \in Seq(Cmd)
    BY <1>5, HeadTailProperties DEF doAsyncCommand
  <2>2. handlers' \in Seq(Cmd) /\ strandQ' \in Seq(Cmd)
    BY <1>5, <2>1 DEF doAsyncCommand
  <2>3. QueuedWith(Head(strandQ)) \in Seq(Cmd)
    BY <2>1 DEF QueuedWith
  <2>4. /\ dataWritten' \in Seq(Cmd) /\ dataQueued' \in Seq(Cmd)
        /\ sent' \in 0..Len(dataWritten')
    <3>1. CASE NoWriteInProgress
      BY <1>5, <2>3, <3>1 DEF doAsyncCommand, WriteAll
    <3>2. CASE ~NoWriteInProgress
      BY <1>5, <2>3, <3>2 DEF doAsyncCommand
    <3> QED
      BY <3>1, <3>2
  <2> QED
    BY <1>5, <2>2, <2>4 DEF doAsyncCommand
<1>6. ASSUME handleAsyncConnect PROVE CommandTypes'
  BY <1>6 DEF handleAsyncConnect
<1>7. ASSUME asyncWrite PROVE CommandTypes'
  <2>1. /\ dataWritten' \in Seq(Cmd) /\ dataQueued' \in Seq(Cmd)
        /\ sent' \in 0..Len(dataWritten')
    <3>1. CASE Head(ready).res = "ok"
      BY <1>7, <3>1 DEF asyncWrite, WriteAll
    <3>2. CASE Head(ready).res # "ok"
      BY <1>7, <3>2, EmptySeq DEF asyncWrite
    <3> QED
      BY <3>1, <3>2
  <2> QED
    BY <1>7, <2>1 DEF asyncWrite
<1>8. ASSUME WriteGoesOn \/ asyncRead \/ EndOfChunk PROVE CommandTypes'
  BY <1>8 DEF WriteGoesOn, asyncRead, EndOfChunk
<1>9. ASSUME ParsePiece PROVE CommandTypes'
  <2>1. Head(rest).of \in 0..Garbage
    <3>1. Head(rest) \in Piece
      BY <1>9, HeadTailProperties DEF ParsePiece, StreamTypes
    <3> QED
      BY <3>1, MaxCmdAssumption DEF Piece, Cmd, Garbage
  <2>2. got' \in [Cmd -> 0..Garbage]
    <3>1. CASE Head(rest).last
      BY <1>9, <2>1, <3>1, GotType DEF ParsePiece
    <3>2. CASE ~Head(rest).last
      BY <1>9, <3>2 DEF ParsePiece, Uncompleted
    <3> QED
      BY <3>1, <3>2
  <2> QED
    BY <1>9, <2>2 DEF ParsePiece
<1>10. ASSUME MisreadPiece PROVE CommandTypes'
  <2>1. got' \in [Cmd -> 0..Garbage]
    <3>1. Garbage \in 0..Garbage
      BY MaxCmdAssumption DEF Garbage
    <3>2. CASE doProcessMessage(Garbage)
      BY <3>1, <3>2, GotType
    <3>3. CASE UNCHANGED got
      BY <3>3
    <3> QED
      BY <1>10, <3>2, <3>3 DEF MisreadPiece
  <2> QED
    BY <1>10, <2>1 DEF MisreadPiece
<1>11. ASSUME ConnectHandlerReturns \/ ErrorHandlerLeaves PROVE CommandTypes'
  BY <1>11 DEF ConnectHandlerReturns, ErrorHandlerLeaves
<1>12. ASSUME ReplyHandlerReturns PROVE CommandTypes'
  <2>1. handlers' \in Seq(Cmd)
    BY <1>12, HeadTailProperties DEF ReplyHandlerReturns
  <2> QED
    BY <1>12, <2>1 DEF ReplyHandlerReturns
<1>13. ASSUME ConnectEnds \/ Break \/ WriteEnds \/ ReadFails PROVE CommandTypes'
  BY <1>13 DEF ConnectEnds, Break, WriteEnds, ReadFails
<1>14. ASSUME Transmit PROVE CommandTypes'
  <2>1. dataWritten[sent + 1] \in Cmd
    BY <1>14 DEF Transmit
  <2>2. wire' \in Seq(Cmd) /\ inFlight' \in Seq(Cmd)
    BY <1>14, <2>1 DEF Transmit
  <2>3. sent' \in 0..Len(dataWritten')
    BY <1>14 DEF Transmit
  <2> QED
    BY <1>14, <2>2, <2>3 DEF Transmit
<1>15. ASSUME NEW n \in 0..Len(inFlight), NEW part \in BOOLEAN, Receive(n, part)
       PROVE  CommandTypes'
  <2>1. inFlight' \in Seq(Cmd)
    BY <1>15 DEF Receive
  <2> QED
    BY <1>15, <2>1 DEF Receive
<1>16. CASE UNCHANGED vars
  BY <1>16 DEF vars
<1> QED
  BY <1>1, <1>2, <1>3, <1>4, <1>5, <1>6, <1>7, <1>8, <1>9, <1>10, <1>11, <1>12,
     <1>13, <1>14, <1>15, <1>16
     DEF Next, Application, Callbacks, Service, Kernel, ReceiveSome

LEMMA StreamTypesNext == ASSUME TypeInv, [Next]_vars PROVE StreamTypes' /\ BufHolds'
<1> DEFINE Goal == StreamTypes /\ BufHolds
<1>q. /\ ready \in Seq(Completion) /\ buf \in Seq(Piece) /\ rest \in Seq(Piece)
      /\ reads \in Nat /\ parser \in Cmd \cup {None} /\ Fits(ready, buf)
  BY DEF TypeInv, TypeOK, StreamTypes, BufHolds
<1>e. <<>> \in Seq(Piece)
  BY EmptySeq
<1>t. ASSUME ready # <<>>
      PROVE  Tail(ready) \in Seq(Completion) /\ Fits(Tail(ready), buf)
  BY <1>q, <1>t, TailFits
<1>d. ASSUME NEW op \in {"connect", "read", "write"}, NEW res \in {"ok", "some", "failed", "aborted"}
      PROVE  Append(ready, Done(op, res)) \in Seq(Completion)
             /\ Fits(Append(ready, Done(op, res)), buf)
  BY <1>q, DoneType, AppendFits
<1> USE DEF StreamTypes, BufHolds, client, service, socket, history
\* Most actions leave the buffer alone: it is enough to look at the rest.
<1>u. ASSUME UNCHANGED buf, ready' \in Seq(Completion) /\ Fits(ready', buf),
             rest' \in Seq(Piece), reads' \in Nat, parser' \in Cmd \cup {None}
      PROVE  Goal'
  BY <1>q, <1>u
<1>1. ASSUME NEW tcp \in BOOLEAN, connect(tcp) PROVE Goal'
  <2>1. ready' \in Seq(Completion) /\ Fits(ready', buf)
    <3>1. CASE Unusable
      BY <1>q, <1>1, <3>1 DEF connect
    <3>2. CASE ~Unusable
      BY <1>d, <1>1, <3>2 DEF connect
    <3> QED
      BY <3>1, <3>2
  <2>2. parser' \in Cmd \cup {None}
    BY <1>q, <1>1 DEF connect, ParserAfterConnect
  <2> QED
    BY <1>q, <1>u, <1>1, <2>1, <2>2 DEF connect
<1>2. ASSUME close PROVE Goal'
  <2> DEFINE R == [i \in 1..reads |-> Done("read", "aborted")]
             C == IF sock = "connecting" THEN <<Done("connect", "aborted")>> ELSE <<>>
             W == IF writing THEN <<Done("write", "aborted")>> ELSE <<>>
  <2>1. R \in Seq(Completion) /\ \A i \in 1..Len(R) : R[i].size = 0
    BY <1>q, DoneType
  <2>2. C \in Seq(Completion) /\ \A i \in 1..Len(C) : C[i].size = 0
    BY DoneType
  <2>3. W \in Seq(Completion) /\ \A i \in 1..Len(W) : W[i].size = 0
    BY DoneType
  <2>4. ready' = ready \o R \o C \o W
    BY <1>2 DEF close
  <2> HIDE DEF R, C, W
  <2>5. ready \o R \in Seq(Completion) /\ Fits(ready \o R, buf)
    BY <1>q, <2>1, ConcatFits
  <2>6. ready \o R \o C \in Seq(Completion) /\ Fits(ready \o R \o C, buf)
    BY <1>q, <2>2, <2>5, ConcatFits
  <2>7. ready' \in Seq(Completion) /\ Fits(ready', buf)
    BY <1>q, <2>3, <2>4, <2>6, ConcatFits
  <2> QED
    BY <1>q, <1>u, <1>2, <2>7 DEF close
<1>3. ASSUME connectIgnored \/ command PROVE Goal'
  BY <1>q, <1>u, <1>3 DEF connectIgnored, command, vars
<1>4. ASSUME doAsyncCommand PROVE Goal'
  <2>1. QueuedWith(Head(strandQ)) \in Seq(Cmd)
    BY <1>4, HeadTailProperties DEF doAsyncCommand, QueuedWith, TypeInv, TypeOK, CommandTypes
  <2>2. ready' \in Seq(Completion) /\ Fits(ready', buf)
    <3>1. CASE NoWriteInProgress
      BY <1>q, <1>4, <2>1, <3>1, StartWrite DEF doAsyncCommand
    <3>2. CASE ~NoWriteInProgress
      BY <1>q, <1>4, <3>2 DEF doAsyncCommand
    <3> QED
      BY <3>1, <3>2
  <2> QED
    BY <1>q, <1>u, <1>4, <2>2 DEF doAsyncCommand
<1>5. ASSUME handleAsyncConnect PROVE Goal'
  BY <1>q, <1>t, <1>u, <1>5 DEF handleAsyncConnect, CompletionOf
<1>6. ASSUME ConnectHandlerReturns \/ EndOfChunk PROVE Goal'
  <2>1. ready' \in Seq(Completion) /\ Fits(ready', buf) /\ reads' \in Nat
    BY <1>q, <1>6, StartRead DEF ConnectHandlerReturns, EndOfChunk
  <2> QED
    BY <1>q, <1>u, <1>6, <2>1 DEF ConnectHandlerReturns, EndOfChunk
<1>7. ASSUME asyncWrite PROVE Goal'
  <2>1. Tail(ready) \in Seq(Completion) /\ Fits(Tail(ready), buf)
    BY <1>t, <1>7 DEF asyncWrite, CompletionOf
  <2>2. ready' \in Seq(Completion) /\ Fits(ready', buf)
    <3>1. CASE Head(ready).res = "ok"
      BY <1>q, <1>7, <2>1, <3>1, StartWrite DEF asyncWrite, TypeInv, TypeOK, CommandTypes
    <3>2. CASE Head(ready).res # "ok"
      BY <1>7, <2>1, <3>2 DEF asyncWrite
    <3> QED
      BY <3>1, <3>2
  <2> QED
    BY <1>q, <1>u, <1>7, <2>2 DEF asyncWrite
<1>8. ASSUME asyncRead PROVE Goal'
  <2>1. ready # <<>> /\ ready' = Tail(ready)
    BY <1>8 DEF asyncRead, CompletionOf
  <2>2. CASE Head(ready).res # "ok"
    BY <1>q, <1>t, <1>u, <1>8, <2>1, <2>2 DEF asyncRead
  <2>3. CASE Head(ready).res = "ok"
    <3>1. Head(ready) \in Completion /\ Head(ready).size <= Len(buf)
      BY <1>q, <2>1, HeadTailProperties DEF Fits
    <3>2. rest' \in Seq(Piece)
      <4>1. Head(ready).size \in Nat
        BY <3>1 DEF Completion
      <4>2. \A i \in 1..Head(ready).size : buf[i] \in Piece
        BY <1>q, <3>1, <4>1, ElementOfSeq, LenProperties
      <4>3. SubSeq(buf, 1, Head(ready).size) \in Seq(Piece)
        BY <4>1, <4>2, SubSeqProperties
      <4> QED
        BY <1>8, <2>3, <4>3 DEF asyncRead
    <3>3. CASE \E i \in 2..Len(ready) : ready[i].size > 0
      BY <1>q, <1>t, <1>u, <1>8, <2>1, <2>3, <3>2, <3>3 DEF asyncRead
    <3>4. CASE ~ \E i \in 2..Len(ready) : ready[i].size > 0
      <4>1. buf' = <<>>
        BY <1>8, <2>3, <3>4 DEF asyncRead
      <4>2. ASSUME NEW i \in 1..Len(ready') PROVE ready'[i].size <= 0
        <5>1. i + 1 \in 2..Len(ready) /\ ready'[i] = ready[i + 1]
          BY <1>q, <2>1, HeadTailProperties
        <5>2. ready[i + 1] \in Completion
          BY <1>q, <5>1, ElementOfSeq
        <5>3. ready[i + 1].size \in Nat
          BY <5>2 DEF Completion
        <5> QED
          BY <3>4, <5>1, <5>3
      <4> QED
        BY <1>q, <1>t, <1>8, <2>1, <3>2, <4>1, <4>2, EmptySeq DEF asyncRead, Fits
    <3> QED
      BY <3>3, <3>4
  <2> QED
    BY <2>2, <2>3
<1>9. ASSUME ParsePiece PROVE Goal'
  <2>0. Head(rest) \in Piece /\ rest' \in Seq(Piece)
    BY <1>q, <1>9, HeadTailProperties DEF ParsePiece
  <2>1. Head(rest).of \in Cmd /\ rest' \in Seq(Piece)
    BY <2>0 DEF Piece
  <2>2. UNCHANGED <<ready, reads>> /\ parser' \in {None, Head(rest).of}
    BY <1>9 DEF ParsePiece, Uncompleted
  <2> QED
    BY <1>q, <1>u, <1>9, <2>1, <2>2 DEF ParsePiece
<1>10. ASSUME MisreadPiece PROVE Goal'
  <2>1. Head(rest) \in Piece /\ Tail(rest) \in Seq(Piece)
    BY <1>q, <1>10, HeadTailProperties DEF MisreadPiece
  <2>2. [Head(rest) EXCEPT !.first = FALSE] \in Piece
    BY <2>1 DEF Piece
  <2>3. <<[Head(rest) EXCEPT !.first = FALSE]>> \o Tail(rest) \in Seq(Piece)
    BY <2>1, <2>2, ConcatProperties
  <2>4. rest' \in Seq(Piece)
    <3>1. \/ rest' = <<>> \/ rest' = Tail(rest)
          \/ rest' = <<[Head(rest) EXCEPT !.first = FALSE]>> \o Tail(rest)
      BY <1>10 DEF MisreadPiece
    <3> QED
      BY <1>e, <2>1, <2>3, <3>1, Zenon
  <2>5. parser' \in {None, Head(rest).of} /\ Head(rest).of \in Cmd
    BY <1>10, <2>1 DEF MisreadPiece, Piece
  <2> QED
    BY <1>q, <1>u, <1>10, <2>4, <2>5 DEF MisreadPiece
<1>11. ASSUME ReplyHandlerReturns \/ ErrorHandlerLeaves PROVE Goal'
  <2>1. rest' = rest \/ rest' = <<>>
    BY <1>11 DEF ReplyHandlerReturns, ErrorHandlerLeaves
  <2>2. rest' \in Seq(Piece)
    BY <1>q, <1>e, <2>1, Zenon
  <2> QED
    BY <1>q, <1>u, <1>11, <2>2 DEF ReplyHandlerReturns, ErrorHandlerLeaves
<1>12. ASSUME ConnectEnds \/ WriteEnds \/ ReadFails PROVE Goal'
  <2>1. ready' \in Seq(Completion) /\ Fits(ready', buf)
    <3>1. CASE ConnectEnds
      BY <1>d, <3>1 DEF ConnectEnds, Complete
    <3>2. CASE WriteEnds
      BY <1>d, <3>2 DEF WriteEnds, Complete
    <3>3. CASE ReadFails
      BY <1>d, <3>3 DEF ReadFails, Complete
    <3> QED
      BY <1>12, <3>1, <3>2, <3>3
  <2>2. reads' \in Nat
    BY <1>q, <1>12 DEF ConnectEnds, WriteEnds, ReadFails
  <2> QED
    BY <1>q, <1>u, <1>12, <2>1, <2>2 DEF ConnectEnds, WriteEnds, ReadFails
<1>13. ASSUME Break \/ Transmit PROVE Goal'
  <2>1. ready' = ready \/ ready' = Append(ready, Done("write", "some"))
    BY <1>13 DEF Break, Transmit, Complete
  <2>2. ready' \in Seq(Completion) /\ Fits(ready', buf)
    BY <1>q, <1>d, <2>1
  <2> QED
    BY <1>q, <1>u, <1>13, <2>2 DEF Break, Transmit
<1>16. ASSUME WriteGoesOn PROVE Goal'
  <2>1. Tail(ready) \in Seq(Completion) /\ Fits(Tail(ready), buf)
    BY <1>t, <1>16 DEF WriteGoesOn, CompletionOf
  <2>2. ready' = Tail(ready) \/ ready' = Append(Tail(ready), Done("write", "failed"))
    BY <1>16 DEF WriteGoesOn
  <2>3. Append(Tail(ready), Done("write", "failed")) \in Seq(Completion)
        /\ Fits(Append(Tail(ready), Done("write", "failed")), buf)
    <3>1. Done("write", "failed") \in Completion /\ Done("write", "failed").size <= Len(buf)
      BY <1>q, DoneType, LenProperties
    <3> QED
      BY <1>q, <2>1, <3>1, AppendFits
  <2>4. ready' \in Seq(Completion) /\ Fits(ready', buf)
    BY <2>1, <2>2, <2>3, Zenon
  <2> QED
    BY <1>q, <1>u, <1>16, <2>4 DEF WriteGoesOn
<1>14. CASE UNCHANGED vars
  BY <1>q, <1>u, <1>14 DEF vars
<1>15. ASSUME NEW n \in 0..Len(inFlight), NEW part \in BOOLEAN,
              n + (IF part THEN 1 ELSE 0) <= Len(inFlight), Receive(n, part)
       PROVE  Goal'
  <2> DEFINE A == [i \in 1..n |-> [of |-> inFlight[i],
                                   first |-> ~(i = 1 /\ cut), last |-> TRUE]]
             B == IF part
                  THEN <<[of |-> inFlight[n + 1], first |-> TRUE, last |-> FALSE]>>
                  ELSE <<>>
             chunk == A \o B
             left  == SubSeq(buf, Len(chunk) + 1, Len(buf))
  <2>1. \A i \in 1..Len(inFlight) : inFlight[i] \in Cmd
    BY DEF TypeInv, TypeOK, CommandTypes
  <2>2. A \in Seq(Piece)
    <3>1. ASSUME NEW i \in 1..n
          PROVE  [of |-> inFlight[i], first |-> ~(i = 1 /\ cut), last |-> TRUE] \in Piece
      <4>1. i \in 1..Len(inFlight)
        BY DEF TypeInv, TypeOK, CommandTypes
      <4>2. inFlight[i] \in Cmd
        BY <2>1, <4>1
      <4> QED
        BY <4>2 DEF Piece
    <3> QED
      BY <3>1
  <2>3. B \in Seq(Piece)
    <3>1. CASE part
      <4>1. inFlight[n + 1] \in Cmd
        BY <1>15, <2>1, <3>1 DEF TypeInv, TypeOK, CommandTypes
      <4>2. [of |-> inFlight[n + 1], first |-> TRUE, last |-> FALSE] \in Piece
        BY <4>1 DEF Piece
      <4> QED
        BY <3>1, <4>2
    <3>2. CASE ~part
      BY <3>2
    <3> QED
      BY <3>1, <3>2
  <2>4. /\ buf' = chunk \o left
        /\ ready' = Append(ready, [op |-> "read", res |-> "ok", size |-> Len(chunk)])
        /\ reads > 0 /\ reads' = reads - 1 /\ UNCHANGED <<rest, parser>>
    BY <1>15 DEF Receive
  <2> HIDE DEF A, B
  <2>5. chunk \in Seq(Piece)
    BY <2>2, <2>3, ConcatProperties
  <2> HIDE DEF chunk
  <2>6. left \in Seq(Piece)
        /\ Len(left) = IF Len(chunk) + 1 <= Len(buf) THEN Len(buf) - Len(chunk) ELSE 0
    <3>1. Len(chunk) \in Nat /\ Len(buf) \in Nat /\ \A i \in 1..Len(buf) : buf[i] \in Piece
      BY <1>q, <2>5, LenProperties, ElementOfSeq
    <3> QED
      BY <3>1, SubSeqProperties
  <2> HIDE DEF left
  <2>7. buf' \in Seq(Piece) /\ Len(buf') = Len(chunk) + Len(left)
    BY <2>4, <2>5, <2>6, ConcatProperties
  <2>8. Len(chunk) \in Nat /\ Len(chunk) <= Len(buf') /\ Len(buf) <= Len(buf')
    BY <1>q, <2>5, <2>6, <2>7, LenProperties
  <2>9. Fits(ready, buf')
    <3>1. ASSUME NEW i \in 1..Len(ready) PROVE ready[i].size <= Len(buf')
      <4>0. ready[i] \in Completion /\ ready[i].size <= Len(buf)
        BY <1>q, ElementOfSeq DEF Fits
      <4>1. ready[i].size \in Nat /\ ready[i].size <= Len(buf)
        BY <4>0 DEF Completion
      <4> QED
        BY <1>q, <2>7, <2>8, <4>1, LenProperties
    <3> QED
      BY <3>1 DEF Fits
  <2>10. ready' \in Seq(Completion) /\ Fits(ready', buf')
    <3> DEFINE x == [op |-> "read", res |-> "ok", size |-> Len(chunk)]
    <3>1. x \in Completion /\ x.size = Len(chunk)
      BY <2>8 DEF Completion
    <3>2. ready' = Append(ready, x)
      BY <2>4
    <3> HIDE DEF x
    <3>3. x.size <= Len(buf')
      BY <2>8, <3>1
    <3> QED
      BY <1>q, <2>7, <2>9, <3>1, <3>2, <3>3, AppendFits
  <2> QED
    BY <1>q, <2>4, <2>7, <2>10
<1> QED
  BY <1>1, <1>2, <1>3, <1>4, <1>5, <1>6, <1>7, <1>8, <1>9, <1>10, <1>11, <1>12,
     <1>13, <1>14, <1>15, <1>16
     DEF Next, Application, Callbacks, Service, Kernel, ReceiveSome

LEMMA TypeNext == TypeInv /\ [Next]_vars => TypeInv'
BY FlagTypesNext, StatusTypesNext, CommandTypesNext, StreamTypesNext DEF TypeInv, TypeOK

\* Type correctness of the asynchronous client: every queue of commands holds
\* commands, the write in progress was sent up to a point within it, and what
\* asyncRead takes from the receive buffer is within what a read put there.
THEOREM TypeCorrect == Spec => [](TypeOK /\ BufHolds)
<1>1. Init => TypeInv
  BY TypeInit
<1>2. TypeInv /\ [Next]_vars => TypeInv'
  BY TypeNext
<1>3. TypeInv => TypeOK /\ BufHolds
  BY DEF TypeInv
<1> QED
  BY <1>1, <1>2, <1>3, PTL DEF Spec

(***************************************************************************)
(* One write at a time                                                     *)
(***************************************************************************)
Writes(q)  == {i \in 1..Len(q) : q[i].op = "write"}
Unique(q)  == \A i, j \in Writes(q) : i = j

\* SingleWriter of a batch d, a write in progress or not, and a queue q.
OneWrite(d, w, q) ==
    /\ d # <<>> <=> (w \/ Writes(q) # {})
    /\ Unique(q)
    /\ w => Writes(q) = {}

LEMMA AppendOther ==
    ASSUME NEW q \in Seq(Completion), NEW x \in Completion, x.op # "write"
    PROVE  Writes(Append(q, x)) = Writes(q)
BY AppendProperties DEF Writes

LEMMA AppendWrite ==
    ASSUME NEW q \in Seq(Completion), NEW x \in Completion, x.op = "write", Writes(q) = {}
    PROVE  Writes(Append(q, x)) # {} /\ Unique(Append(q, x))
<1>1. Writes(Append(q, x)) = {Len(q) + 1}
  BY AppendProperties DEF Writes
<1> QED
  BY <1>1, Zenon DEF Unique

LEMMA TailOther ==
    ASSUME NEW q \in Seq(Completion), q # <<>>, Head(q).op # "write", Unique(q)
    PROVE  (Writes(Tail(q)) = {} <=> Writes(q) = {}) /\ Unique(Tail(q))
<1>1. /\ Len(q) \in Nat \ {0} /\ Head(q) = q[1] /\ Len(Tail(q)) = Len(q) - 1
      /\ \A i \in 1..Len(Tail(q)) : Tail(q)[i] = q[i + 1]
  BY HeadTailProperties, EmptySeq
<1>2. ASSUME NEW i \in Writes(Tail(q)) PROVE i + 1 \in Writes(q)
  BY <1>1 DEF Writes
<1>3. ASSUME NEW i \in Writes(q) PROVE i - 1 \in Writes(Tail(q))
  BY <1>1 DEF Writes
<1>4. Unique(Tail(q))
  <2>1. ASSUME NEW i \in Writes(Tail(q)), NEW j \in Writes(Tail(q)) PROVE i = j
    <3>1. i + 1 = j + 1
      BY <1>2 DEF Unique
    <3> QED
      BY <3>1 DEF Writes
  <2> QED
    BY <2>1 DEF Unique
<1> QED
  BY <1>2, <1>3, <1>4

LEMMA TailWrite ==
    ASSUME NEW q \in Seq(Completion), q # <<>>, Head(q).op = "write", Unique(q)
    PROVE  Writes(Tail(q)) = {}
<1>1. /\ Len(q) \in Nat \ {0} /\ Head(q) = q[1] /\ Len(Tail(q)) = Len(q) - 1
      /\ \A i \in 1..Len(Tail(q)) : Tail(q)[i] = q[i + 1]
  BY HeadTailProperties, EmptySeq
<1>2. 1 \in Writes(q)
  BY <1>1 DEF Writes
<1>3. ASSUME NEW i \in Writes(Tail(q)) PROVE FALSE
  <2>1. i + 1 \in Writes(q) /\ i \in Nat \ {0}
    BY <1>1 DEF Writes
  <2> QED
    BY <1>2, <2>1 DEF Unique
<1> QED
  BY <1>3

LEMMA ConcatOther ==
    ASSUME NEW q \in Seq(Completion), NEW r \in Seq(Completion),
           \A i \in 1..Len(r) : r[i].op # "write"
    PROVE  Writes(q \o r) = Writes(q)
<1>1. /\ Len(q \o r) = Len(q) + Len(r) /\ Len(q) \in Nat /\ Len(r) \in Nat
      /\ \A i \in 1..Len(q) + Len(r) :
           (q \o r)[i] = IF i <= Len(q) THEN q[i] ELSE r[i - Len(q)]
  BY ConcatProperties, LenProperties
<1>2. ASSUME NEW i \in Writes(q \o r) PROVE i \in Writes(q)
  BY <1>1 DEF Writes
<1>3. ASSUME NEW i \in Writes(q) PROVE i \in Writes(q \o r)
  BY <1>1 DEF Writes
<1> QED
  BY <1>2, <1>3

\* A batch that starts when no write is in progress or waiting to be handled.
LEMMA WriteAllOneWrite ==
    ASSUME NEW q \in Seq(Completion), NEW s, Writes(q) = {}, WriteAll(s, q)
    PROVE  OneWrite(dataWritten', writing', ready')
<1>1. dataWritten' = s /\ (writing' <=> s # <<>> /\ ~Unusable)
      /\ (s # <<>> /\ Unusable => ready' = Append(q, Done("write", "failed")))
      /\ (~(s # <<>> /\ Unusable) => ready' = q)
  BY DEF WriteAll
<1>2. CASE s # <<>> /\ Unusable
  BY <1>1, <1>2, DoneType, AppendWrite, Zenon DEF OneWrite
<1>3. CASE ~(s # <<>> /\ Unusable)
  <2>1. Unique(q)
    BY DEF Unique
  <2> QED
    BY <1>1, <1>3, <2>1, Zenon DEF OneWrite
<1> QED
  BY <1>2, <1>3

LEMMA SingleWriterNext ==
    ASSUME TypeInv, SingleWriter, [Next]_vars PROVE SingleWriter'
<1> DEFINE Now == OneWrite(dataWritten, writing, ready)
<1>q. ready \in Seq(Completion) /\ Now
  BY DEF TypeInv, TypeOK, StreamTypes, SingleWriter, OneWrite, Unique, Writes, WriteEnded
<1>g. SUFFICES Now'
  BY DEF SingleWriter, OneWrite, Unique, Writes, WriteEnded
\* It is enough that dataWritten and writing stay and the writes in the
\* completion queue are as many as before.
<1>s. ASSUME UNCHANGED <<dataWritten, writing>>, Writes(ready') = {} <=> Writes(ready) = {},
             Unique(ready')
      PROVE  Now'
  BY <1>q, <1>s, Zenon DEF OneWrite
<1>o. ASSUME NEW op \in {"connect", "read"}, NEW res \in {"ok", "failed", "aborted"}
      PROVE  LET r == Append(ready, Done(op, res))
             IN  Writes(r) = Writes(ready) /\ Unique(r)
  <2>1. Done(op, res) \in Completion /\ Done(op, res).op # "write"
    BY DoneType
  <2>2. Writes(Append(ready, Done(op, res))) = Writes(ready)
    BY <1>q, <2>1, AppendOther
  <2> QED
    BY <1>q, <2>2, Zenon DEF OneWrite, Unique
<1>t. ASSUME NEW op \in {"connect", "read"}, CompletionOf(op)
      PROVE  (Writes(Tail(ready)) = {} <=> Writes(ready) = {}) /\ Unique(Tail(ready))
  <2>1. ready # <<>> /\ Head(ready).op # "write" /\ Unique(ready)
    BY <1>q, <1>t DEF CompletionOf, OneWrite
  <2> QED
    BY <1>q, <2>1, TailOther, Zenon
<1>k. Unique(ready)
  BY <1>q DEF OneWrite
<1> USE DEF client, service, socket, history
<1>1. ASSUME NEW tcp \in BOOLEAN, connect(tcp) PROVE Now'
  <2>1. ready' = ready \/ ready' = Append(ready, Done("connect", "failed"))
    BY <1>1 DEF connect
  <2>2. Writes(ready') = Writes(ready) /\ Unique(ready')
    BY <1>o, <1>k, <2>1, Zenon
  <2> QED
    BY <1>s, <1>1, <2>2 DEF connect
<1>2. ASSUME close PROVE Now'
  <2> DEFINE R == [i \in 1..reads |-> Done("read", "aborted")]
             C == IF sock = "connecting" THEN <<Done("connect", "aborted")>> ELSE <<>>
             q == ready \o R \o C
  <2>1. R \in Seq(Completion) /\ \A i \in 1..Len(R) : R[i].op # "write"
    BY DoneType DEF TypeInv, TypeOK, StreamTypes
  <2>2. C \in Seq(Completion) /\ \A i \in 1..Len(C) : C[i].op # "write"
    BY DoneType
  <2>3. /\ ready' = q \o (IF writing THEN <<Done("write", "aborted")>> ELSE <<>>)
        /\ writing' = FALSE /\ dataWritten' = dataWritten
    BY <1>2 DEF close
  <2> HIDE DEF R, C
  <2>4. ready \o R \in Seq(Completion) /\ Writes(ready \o R) = Writes(ready)
    BY <1>q, <2>1, ConcatOther, ConcatProperties
  <2>5. q \in Seq(Completion) /\ Writes(q) = Writes(ready)
    BY <2>2, <2>4, ConcatOther, ConcatProperties
  <2> HIDE DEF q
  <2>6. CASE writing
    <3>1. Writes(q) = {} /\ dataWritten # <<>>
      BY <1>q, <2>5, <2>6 DEF OneWrite
    <3>2. Done("write", "aborted") \in Completion /\ Done("write", "aborted").op = "write"
      BY DoneType
    <3>3. ready' = Append(q, Done("write", "aborted"))
      BY <2>3, <2>5, <2>6, <3>2, AppendIsConcat
    <3>4. Writes(ready') # {} /\ Unique(ready')
      BY <2>5, <3>1, <3>2, <3>3, AppendWrite
    <3> QED
      BY <2>3, <3>1, <3>4, Zenon DEF OneWrite
  <2>7. CASE ~writing
    <3>1. ready' = q
      BY <2>3, <2>5, <2>7, ConcatEmptySeq
    <3>2. Unique(q)
      BY <1>k, <2>5, Zenon DEF Unique
    <3> QED
      BY <1>q, <2>3, <2>5, <2>7, <3>1, <3>2, Zenon DEF OneWrite
  <2> QED
    BY <2>6, <2>7 DEF TypeInv, TypeOK, FlagTypes
<1>3. ASSUME connectIgnored \/ command PROVE Now'
  BY <1>q, <1>3 DEF connectIgnored, command, vars
<1>4. ASSUME doAsyncCommand PROVE Now'
  <2>1. CASE NoWriteInProgress
    <3>1. Writes(ready) = {}
      BY <1>q, <2>1 DEF OneWrite, NoWriteInProgress
    <3>2. WriteAll(QueuedWith(Head(strandQ)), ready)
      BY <1>4, <2>1 DEF doAsyncCommand
    <3> QED
      BY <1>q, <3>1, <3>2, WriteAllOneWrite
  <2>2. CASE ~NoWriteInProgress
    BY <1>q, <1>4, <2>2 DEF doAsyncCommand
  <2> QED
    BY <2>1, <2>2
<1>5. ASSUME handleAsyncConnect \/ asyncRead PROVE Now'
  <2>1. ready' = Tail(ready) /\ (CompletionOf("connect") \/ CompletionOf("read"))
        /\ UNCHANGED <<dataWritten, writing>>
    BY <1>5 DEF handleAsyncConnect, asyncRead
  <2> QED
    BY <1>s, <1>t, <2>1
<1>6. ASSUME ConnectHandlerReturns \/ EndOfChunk PROVE Now'
  <2>1. (ready' = ready \/ ready' = Append(ready, Done("read", "failed")))
        /\ UNCHANGED <<dataWritten, writing>>
    BY <1>6 DEF ConnectHandlerReturns, EndOfChunk, processMessage
  <2>2. Writes(ready') = Writes(ready) /\ Unique(ready')
    BY <1>o, <1>k, <2>1, Zenon
  <2> QED
    BY <1>s, <2>1, <2>2
<1>7. ASSUME asyncWrite PROVE Now'
  <2>1. ready # <<>> /\ Head(ready).op = "write"
    BY <1>7 DEF asyncWrite, CompletionOf
  <2>2. Writes(Tail(ready)) = {} /\ Tail(ready) \in Seq(Completion)
    BY <1>q, <1>k, <2>1, TailWrite, HeadTailProperties
  <2>3. 1 \in Writes(ready)
    BY <1>q, <2>1, EmptySeq DEF Writes
  <2>4. CASE Head(ready).res = "ok"
    BY <1>7, <2>2, <2>4, WriteAllOneWrite DEF asyncWrite
  <2>5. CASE Head(ready).res # "ok"
    <3>1. dataWritten' = <<>> /\ ready' = Tail(ready) /\ writing' = writing
      BY <1>7, <2>5 DEF asyncWrite
    <3>2. ~writing
      BY <1>q, <2>3, Zenon DEF OneWrite
    <3> QED
      BY <2>2, <3>1, <3>2, Zenon DEF OneWrite, Unique
  <2> QED
    BY <2>4, <2>5
<1>8. ASSUME ParsePiece PROVE Now'
  BY <1>q, <1>8 DEF ParsePiece, Uncompleted
<1>9. ASSUME MisreadPiece \/ ReplyHandlerReturns \/ ErrorHandlerLeaves \/ Break
      PROVE  Now'
  BY <1>q, <1>9 DEF MisreadPiece, ReplyHandlerReturns, ErrorHandlerLeaves, Break
<1>10. ASSUME ConnectEnds \/ ReadFails PROVE Now'
  <2>1. /\ \E op \in {"connect", "read"}, res \in {"ok", "failed"} :
             ready' = Append(ready, Done(op, res))
        /\ UNCHANGED <<dataWritten, writing>>
    BY <1>10 DEF ConnectEnds, ReadFails, Complete
  <2>2. Writes(ready') = Writes(ready) /\ Unique(ready')
    BY <1>o, <2>1
  <2> QED
    BY <1>s, <2>1, <2>2
\* A write that was in progress completes, for good or for a part.
<1>w. ASSUME NEW res \in {"ok", "some", "failed"}, ready' = Append(ready, Done("write", res)),
             writing, ~writing', dataWritten' = dataWritten
      PROVE  Now'
  <2>1. Writes(ready) = {} /\ dataWritten # <<>>
    BY <1>q, <1>w DEF OneWrite
  <2>2. Writes(ready') # {} /\ Unique(ready')
    BY <1>q, <1>w, <2>1, DoneType, AppendWrite
  <2> QED
    BY <1>w, <2>1, <2>2, Zenon DEF OneWrite
<1>11. ASSUME WriteEnds PROVE Now'
  <2>1. PICK res \in {"ok", "failed"} : ready' = Append(ready, Done("write", res))
    BY <1>11 DEF WriteEnds, Complete
  <2> QED
    BY <1>w, <1>11, <2>1 DEF WriteEnds
<1>14. ASSUME Transmit PROVE Now'
  <2>1. CASE UNCHANGED <<ready, writing>>
    BY <1>q, <1>14, <2>1 DEF Transmit
  <2>2. CASE Complete("write", "some") /\ writing' = FALSE
    BY <1>w, <1>14, <2>2 DEF Transmit, Complete
  <2> QED
    BY <1>14, <2>1, <2>2 DEF Transmit
<1>15. ASSUME WriteGoesOn PROVE Now'
  <2>1. ready # <<>> /\ Head(ready).op = "write"
    BY <1>15 DEF WriteGoesOn, CompletionOf
  <2>2. Writes(Tail(ready)) = {} /\ Tail(ready) \in Seq(Completion)
    BY <1>q, <1>k, <2>1, TailWrite, HeadTailProperties
  <2>3. 1 \in Writes(ready)
    BY <1>q, <2>1, EmptySeq DEF Writes
  <2>4. dataWritten' # <<>>
    BY <1>q, <1>15, <2>3, Zenon DEF WriteGoesOn, OneWrite
  <2>5. CASE Unusable
    <3>1. ready' = Append(Tail(ready), Done("write", "failed")) /\ ~writing'
      BY <1>15, <2>5 DEF WriteGoesOn
    <3>2. Writes(ready') # {} /\ Unique(ready')
      BY <2>2, <3>1, DoneType, AppendWrite
    <3> QED
      BY <2>4, <3>1, <3>2, Zenon DEF OneWrite
  <2>6. CASE ~Unusable
    <3>1. ready' = Tail(ready) /\ writing'
      BY <1>15, <2>6 DEF WriteGoesOn
    <3> QED
      BY <2>2, <2>4, <3>1, Zenon DEF OneWrite, Unique
  <2> QED
    BY <2>5, <2>6
<1>12. ASSUME NEW n \in Nat, NEW part \in BOOLEAN, Receive(n, part) PROVE Now'
  <2>1. PICK k \in Nat : ready' = Append(ready, [op |-> "read", res |-> "ok", size |-> k])
                         /\ UNCHANGED <<dataWritten, writing>>
    BY <1>12 DEF Receive
  <2>2. [op |-> "read", res |-> "ok", size |-> k] \in Completion
    BY DEF Completion
  <2>3. Writes(ready') = Writes(ready)
    BY <1>q, <2>1, <2>2, AppendOther
  <2>4. Unique(ready')
    BY <1>k, <2>3, Zenon DEF Unique
  <2> QED
    BY <1>s, <2>1, <2>3, <2>4
<1>13. CASE UNCHANGED vars
  BY <1>q, <1>13 DEF vars
<1> QED
  BY <1>1, <1>2, <1>3, <1>4, <1>5, <1>6, <1>7, <1>8, <1>9, <1>10, <1>11, <1>12, <1>13,
     <1>14, <1>15
     DEF Next, Application, Callbacks, Service, Kernel, ReceiveSome, TypeInv, TypeOK, CommandTypes

\* doAsyncCommand's test of dataWritten is exact in every reachable state, so
\* there is never a second async_write on the socket: the bytes of two batches
\* cannot be interleaved.
THEOREM SingleWriterCorrect == Spec => []SingleWriter
<1>1. Init => SingleWriter
  BY DEF Init, SingleWriter, WriteEnded
<1>2. TypeInv /\ SingleWriter /\ [Next]_vars => SingleWriter'
  BY SingleWriterNext
<1>3. Spec => []TypeInv
  BY TypeInit, TypeNext, PTL DEF Spec
<1> QED
  BY <1>1, <1>2, <1>3, PTL DEF Spec

(***************************************************************************)
(* Commands reach the wire in order, once                                  *)
(*                                                                         *)
(* WireOrder is not inductive: what keeps it is that the commands on their *)
(* way, from the strand through dataQueued to what is left of dataWritten, *)
(* stand in order behind one another and behind the wire.                  *)
(***************************************************************************)
Before(s, t) == \A i \in 1..Len(s), j \in 1..Len(t) : s[i] < t[j]
Below(s, n)  == \A i \in 1..Len(s) : s[i] < n

OnTheWay ==
    /\ Increasing(dataWritten) /\ Increasing(dataQueued) /\ Increasing(strandQ)
    /\ Before(dataWritten, dataQueued) /\ Before(dataWritten, strandQ)
    /\ Before(dataQueued, strandQ)
    /\ Below(dataWritten, next) /\ Below(dataQueued, next) /\ Below(strandQ, next)

WireBehind ==
    /\ Increasing(wire) /\ Before(wire, dataQueued) /\ Before(wire, strandQ)
    /\ Below(wire, next)
    /\ \A i \in 1..Len(wire), j \in (sent + 1)..Len(dataWritten) : wire[i] < dataWritten[j]

OrderInv == OnTheWay /\ WireBehind

LEMMA AppendOrder ==
    ASSUME NEW s \in Seq(Nat), NEW n \in Nat, Increasing(s), Below(s, n)
    PROVE  Increasing(Append(s, n))
BY AppendProperties DEF Increasing, Below

LEMMA AppendBefore ==
    ASSUME NEW s \in Seq(Nat), NEW t \in Seq(Nat), NEW n \in Nat,
           Before(s, t), Below(s, n)
    PROVE  Before(s, Append(t, n))
<1>1. /\ Len(Append(t, n)) = Len(t) + 1 /\ Append(t, n)[Len(t) + 1] = n
      /\ \A j \in 1..Len(t) : Append(t, n)[j] = t[j]
  BY AppendProperties
<1>2. ASSUME NEW i \in 1..Len(s), NEW j \in 1..Len(Append(t, n))
      PROVE  s[i] < Append(t, n)[j]
  <2>1. CASE j \in 1..Len(t)
    BY <1>1, <2>1 DEF Before
  <2>2. CASE j = Len(t) + 1
    BY <1>1, <2>2 DEF Below
  <2> QED
    BY <1>1, <2>1, <2>2, LenProperties
<1> QED
  BY <1>2 DEF Before

LEMMA AppendAfter ==
    ASSUME NEW s \in Seq(Nat), NEW t \in Seq(Nat), NEW n \in Nat,
           Before(s, t), \A j \in 1..Len(t) : n < t[j]
    PROVE  Before(Append(s, n), t)
BY AppendProperties DEF Before

LEMMA AppendBelow ==
    ASSUME NEW s \in Seq(Nat), NEW n \in Nat, NEW m \in Nat, Below(s, m), n < m
    PROVE  Below(Append(s, n), m)
BY AppendProperties DEF Below

LEMMA BelowMore ==
    ASSUME NEW s \in Seq(Nat), NEW n \in Nat, Below(s, n)
    PROVE  Below(s, n + 1)
<1>1. \A i \in 1..Len(s) : s[i] \in Nat
  BY ElementOfSeq
<1> QED
  BY <1>1 DEF Below

LEMMA TailOrder ==
    ASSUME NEW s \in Seq(Nat), s # <<>>, Increasing(s)
    PROVE  /\ Head(s) \in Nat /\ Tail(s) \in Seq(Nat) /\ Increasing(Tail(s))
           /\ \A j \in 1..Len(Tail(s)) : Head(s) < Tail(s)[j]
           /\ \A n \in Nat : Below(s, n) => Head(s) < n /\ Below(Tail(s), n)
           /\ \A r \in Seq(Nat) : Before(r, s) => Before(r, Tail(s)) /\ Below(r, Head(s))
<1>1. /\ Len(s) \in Nat \ {0} /\ Head(s) = s[1] /\ Len(Tail(s)) = Len(s) - 1
      /\ \A i \in 1..Len(Tail(s)) : Tail(s)[i] = s[i + 1]
      /\ Head(s) \in Nat /\ Tail(s) \in Seq(Nat)
  BY HeadTailProperties, EmptySeq
<1>2. Increasing(Tail(s)) /\ \A j \in 1..Len(Tail(s)) : Head(s) < Tail(s)[j]
  BY <1>1 DEF Increasing
<1>3. ASSUME NEW n \in Nat, Below(s, n) PROVE Head(s) < n /\ Below(Tail(s), n)
  BY <1>1, <1>3 DEF Below
<1>4. ASSUME NEW r \in Seq(Nat), Before(r, s)
      PROVE  Before(r, Tail(s)) /\ Below(r, Head(s))
  BY <1>1, <1>4 DEF Below, Before
<1> QED
  BY <1>1, <1>2, <1>3, <1>4

LEMMA OrderInit == Init => OrderInv
BY EmptySeq DEF Init, OrderInv, OnTheWay, WireBehind, Increasing, Before, Below

LEMMA OrderNext == ASSUME TypeInv, OrderInv, [Next]_vars PROVE OrderInv'
<1>q. /\ dataWritten \in Seq(Nat) /\ dataQueued \in Seq(Nat) /\ strandQ \in Seq(Nat)
      /\ wire \in Seq(Nat) /\ next \in Nat /\ sent \in 0..Len(dataWritten)
  <2>1. Cmd \subseteq Nat
    BY MaxCmdAssumption DEF Cmd
  <2>2. /\ dataWritten \in Seq(Cmd) /\ dataQueued \in Seq(Cmd) /\ strandQ \in Seq(Cmd)
        /\ wire \in Seq(Cmd) /\ next \in 1..(MaxCmd + 1) /\ sent \in 0..Len(dataWritten)
    BY DEF TypeInv, TypeOK, CommandTypes
  <2>3. /\ dataWritten \in Seq(Nat) /\ dataQueued \in Seq(Nat) /\ strandQ \in Seq(Nat)
        /\ wire \in Seq(Nat)
    BY <2>1, <2>2, SeqMonotonic
  <2> QED
    BY <2>2, <2>3, MaxCmdAssumption
<1>e. /\ Increasing(<<>>) /\ \A n : Below(<<>>, n)
      /\ \A s : Before(s, <<>>) /\ Before(<<>>, s)
  BY EmptySeq DEF Increasing, Below, Before
<1>o. OnTheWay /\ WireBehind
  BY DEF OrderInv
<1>u. ASSUME UNCHANGED <<dataWritten, dataQueued, strandQ, wire, next, sent>>
      PROVE  OrderInv'
  BY <1>o, <1>u DEF OrderInv, OnTheWay, WireBehind, Increasing, Before, Below
<1> USE DEF client, service, socket, history
<1>1. ASSUME command PROVE OrderInv'
  <2>1. /\ strandQ' = Append(strandQ, next) /\ next' = next + 1
        /\ UNCHANGED <<dataWritten, dataQueued, wire, sent>>
    BY <1>1 DEF command
  <2>2. /\ Increasing(strandQ') /\ Before(dataQueued, strandQ')
        /\ Before(dataWritten, strandQ') /\ Before(wire, strandQ')
    BY <1>q, <1>o, <2>1, AppendOrder, AppendBefore DEF OnTheWay, WireBehind
  <2>3. /\ Below(strandQ, next') /\ Below(dataQueued, next')
        /\ Below(dataWritten, next') /\ Below(wire, next')
    BY <1>q, <1>o, <2>1, BelowMore DEF OnTheWay, WireBehind
  <2>4. Below(strandQ', next')
    BY <1>q, <2>1, <2>3, AppendBelow
  <2> QED
    BY <1>o, <2>1, <2>2, <2>3, <2>4 DEF OrderInv, OnTheWay, WireBehind
<1>2. ASSUME doAsyncCommand PROVE OrderInv'
  <2> DEFINE c == Head(strandQ)
             d == Append(dataQueued, c)
  <2>1. strandQ # <<>> /\ strandQ' = Tail(strandQ) /\ UNCHANGED <<wire, next>>
    BY <1>2 DEF doAsyncCommand
  <2>2. /\ c \in Nat /\ Tail(strandQ) \in Seq(Nat) /\ Increasing(Tail(strandQ))
        /\ \A j \in 1..Len(Tail(strandQ)) : c < Tail(strandQ)[j]
        /\ \A n \in Nat : Below(strandQ, n) => c < n /\ Below(Tail(strandQ), n)
        /\ \A r \in Seq(Nat) : Before(r, strandQ) => Before(r, Tail(strandQ)) /\ Below(r, c)
    BY <1>q, <1>o, <2>1, TailOrder DEF OnTheWay
  <2> HIDE DEF c
  <2>3. /\ c < next /\ Below(Tail(strandQ), next)
        /\ Before(dataQueued, Tail(strandQ)) /\ Below(dataQueued, c)
        /\ Before(dataWritten, Tail(strandQ)) /\ Below(dataWritten, c)
        /\ Before(wire, Tail(strandQ)) /\ Below(wire, c)
    BY <1>q, <1>o, <2>2 DEF OnTheWay, WireBehind
  <2>4. /\ d \in Seq(Nat) /\ Increasing(d) /\ Below(d, next) /\ Before(d, Tail(strandQ))
        /\ Before(dataWritten, d) /\ Before(wire, d)
    BY <1>q, <1>o, <2>2, <2>3, AppendProperties, AppendOrder, AppendBelow, AppendAfter,
       AppendBefore DEF OnTheWay, WireBehind
  <2>5. CASE NoWriteInProgress
    <3>1. dataWritten' = d /\ dataQueued' = <<>> /\ sent' = 0
      BY <1>2, <2>5 DEF doAsyncCommand, WriteAll, QueuedWith, c
    <3> HIDE DEF d
    <3>2. OnTheWay'
      BY <1>e, <2>1, <2>2, <2>3, <2>4, <3>1 DEF OnTheWay
    <3>3. WireBehind'
      BY <1>e, <1>o, <2>1, <2>3, <2>4, <3>1 DEF WireBehind, Before
    <3> QED
      BY <3>2, <3>3 DEF OrderInv
  <2>6. CASE ~NoWriteInProgress
    <3>1. dataQueued' = d /\ UNCHANGED <<dataWritten, sent>>
      BY <1>2, <2>6 DEF doAsyncCommand, QueuedWith, c
    <3> HIDE DEF d
    <3>2. OnTheWay'
      BY <1>o, <2>1, <2>2, <2>3, <2>4, <3>1 DEF OnTheWay
    <3>3. WireBehind'
      BY <1>o, <2>1, <2>3, <2>4, <3>1 DEF WireBehind
    <3> QED
      BY <3>2, <3>3 DEF OrderInv
  <2> QED
    BY <2>5, <2>6
<1>3. ASSUME asyncWrite PROVE OrderInv'
  <2>1. /\ dataWritten' \in {dataQueued, <<>>} /\ dataQueued' \in {dataQueued, <<>>}
        /\ (dataWritten' = <<>> \/ dataQueued' = <<>>)
        /\ sent' = 0 /\ UNCHANGED <<strandQ, wire, next>>
    BY <1>3 DEF asyncWrite, WriteAll
  <2>2. OnTheWay'
    BY <1>e, <1>o, <2>1, Zenon DEF OnTheWay
  <2>3. Before(wire, dataWritten')
    BY <1>e, <1>o, <2>1 DEF WireBehind
  <2>4. \A i \in 1..Len(wire'), j \in (sent' + 1)..Len(dataWritten') : wire'[i] < dataWritten'[j]
    BY <2>1, <2>3 DEF Before
  <2>5. WireBehind'
    BY <1>e, <1>o, <2>1, <2>4, Zenon DEF WireBehind
  <2> QED
    BY <2>2, <2>5 DEF OrderInv
<1>4. ASSUME Transmit PROVE OrderInv'
  <2> DEFINE c == dataWritten[sent + 1]
  <2>1. /\ sent + 1 \in 1..Len(dataWritten) /\ sent' = sent + 1 /\ wire' = Append(wire, c)
        /\ UNCHANGED <<dataWritten, dataQueued, strandQ, next>>
    BY <1>q, <1>4 DEF Transmit
  <2>0. c \in Nat
    BY <1>q, <2>1, ElementOfSeq
  <2>2. /\ c \in Nat /\ Below(wire, c) /\ c < next
        /\ (\A j \in 1..Len(dataQueued) : c < dataQueued[j])
        /\ (\A j \in 1..Len(strandQ) : c < strandQ[j])
        /\ (\A j \in (sent + 2)..Len(dataWritten) : c < dataWritten[j])
    <3>1. Below(wire, c)
      BY <1>q, <1>o, <2>0, <2>1 DEF WireBehind, Below
    <3>2. c < next
      BY <1>o, <2>1 DEF OnTheWay, Below
    <3>3. (\A j \in 1..Len(dataQueued) : c < dataQueued[j])
          /\ (\A j \in 1..Len(strandQ) : c < strandQ[j])
      BY <1>o, <2>1 DEF OnTheWay, Before
    <3>4. \A j \in (sent + 2)..Len(dataWritten) : c < dataWritten[j]
      BY <1>q, <1>o, <2>1 DEF OnTheWay, Increasing
    <3> QED
      BY <2>0, <3>1, <3>2, <3>3, <3>4
  <2> HIDE DEF c
  <2>3. /\ Increasing(wire') /\ Below(wire', next)
        /\ Before(wire', dataQueued) /\ Before(wire', strandQ)
    BY <1>q, <1>o, <2>1, <2>2, AppendOrder, AppendBelow, AppendAfter DEF WireBehind
  <2>4. ASSUME NEW i \in 1..Len(wire'), NEW j \in (sent' + 1)..Len(dataWritten)
        PROVE  wire'[i] < dataWritten[j]
    <3>1. j \in (sent + 2)..Len(dataWritten)
      BY <1>q, <2>1
    <3>2. wire'[i] = c \/ (i \in 1..Len(wire) /\ wire'[i] = wire[i])
      <4>1. /\ Len(wire) \in Nat /\ Len(wire') = Len(wire) + 1
            /\ wire'[Len(wire) + 1] = c
            /\ \A k \in 1..Len(wire) : wire'[k] = wire[k]
        BY <1>q, <2>1, <2>2, AppendProperties, LenProperties
      <4> QED
        BY <4>1
    <3> QED
      BY <1>q, <1>o, <2>1, <2>2, <3>1, <3>2 DEF WireBehind
  <2>5. WireBehind'
    BY <2>1, <2>3, <2>4 DEF WireBehind
  <2>6. OnTheWay'
    BY <1>o, <2>1 DEF OnTheWay, Increasing, Before, Below
  <2> QED
    BY <2>5, <2>6 DEF OrderInv
<1>5. ASSUME NEW tcp \in BOOLEAN, connect(tcp) PROVE OrderInv'
  BY <1>u, <1>5 DEF connect
<1>6. ASSUME connectIgnored \/ close PROVE OrderInv'
  BY <1>u, <1>6 DEF connectIgnored, close, vars
<1>7. ASSUME Callbacks PROVE OrderInv'
  BY <1>u, <1>7 DEF Callbacks, ConnectHandlerReturns, ReplyHandlerReturns, ErrorHandlerLeaves
<1>8. ASSUME handleAsyncConnect \/ WriteGoesOn \/ asyncRead \/ ParsePiece \/ MisreadPiece
             \/ EndOfChunk
      PROVE  OrderInv'
  BY <1>u, <1>8
     DEF handleAsyncConnect, WriteGoesOn, asyncRead, ParsePiece, MisreadPiece, EndOfChunk
<1>9. ASSUME ConnectEnds \/ Break \/ WriteEnds \/ ReadFails PROVE OrderInv'
  BY <1>u, <1>9 DEF ConnectEnds, Break, WriteEnds, ReadFails
<1>10. ASSUME ReceiveSome(0..Len(inFlight)) PROVE OrderInv'
  BY <1>u, <1>10 DEF ReceiveSome, Receive
<1>11. CASE UNCHANGED vars
  BY <1>u, <1>11 DEF vars
<1> QED
  BY <1>1, <1>2, <1>3, <1>4, <1>5, <1>6, <1>7, <1>8, <1>9, <1>10, <1>11
     DEF Next, Application, Service, Kernel

\* Over all connections the kernel takes the commands in the order command()
\* was called, and none of them twice.
THEOREM WireOrderCorrect == Spec => []WireOrder
<1>1. TypeInv /\ OrderInv /\ [Next]_vars => OrderInv'
  BY OrderNext
<1>2. OrderInv => WireOrder
  BY DEF OrderInv, WireBehind, WireOrder
<1>3. Spec => []TypeInv
  BY TypeInit, TypeNext, PTL DEF Spec
<1> QED
  BY OrderInit, <1>1, <1>2, <1>3, PTL DEF Spec
=============================================================================
