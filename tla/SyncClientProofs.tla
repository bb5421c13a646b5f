-------------------------- MODULE SyncClientProofs --------------------------
(***************************************************************************)
(* Proofs about SyncClient, and that it implements CommandChannel, for     *)
(* every number of commands, connections and disconnects, pipelines of     *)
(* every length and every set of replies the parser does not understand.   *)
(***************************************************************************)
EXTENDS SyncChannel, PieceLemmas

(***************************************************************************)
(* The inductive invariant                                                 *)
(***************************************************************************)

\* A call holds commands only while it sends them or reads their replies, on a
\* client that is Connected.
CallShape ==
    /\ call \in {"none", "connect"} =>
           cmds = <<>> /\ responses = <<>> /\ sent = 0 /\ ~part
    /\ call \in {"write", "read"} => state = "Connected"
    /\ call = "write" => sent < Len(cmds) /\ responses = <<>>
    /\ call = "read" => Len(responses) < Len(cmds)

\* A client that is Connected has a socket that is or was, and only such a
\* client has commands at the server.
LinkShape ==
    /\ state = "Connected" => sock \in {"connected", "broken"}
    /\ state # "Connected" => inFlight = <<>> /\ ~torn
    /\ call = "connect" => sock \in {"closed", "opened"}

TypeInv == TypeOK /\ CallShape /\ LinkShape

\* The commands of a call were issued in order, and none was answered.
Unanswered ==
    /\ \A i, j \in 1..Len(cmds) : i < j => cmds[i] < cmds[j]
    /\ \A i \in 1..Len(cmds) : cmds[i] < next /\ got[cmds[i]] = None
    /\ \A n \in Cmd : n >= next => got[n] = None

\* What NothingLeftBehind rests on: nothing torn, the rest of a reply that is
\* cut at the server, and the values read those of the first commands.
InStep ==
    clean /\ state = "Connected" =>
        /\ ~torn
        /\ buf # <<>> /\ ~buf[Len(buf)].last => inFlight # <<>>
        /\ \A i \in 1..Len(responses) : responses[i] = cmds[i]

CleanInv == NothingLeftBehind /\ InStep

(***************************************************************************)
(* What a read brings, and what a value that was read does                 *)
(***************************************************************************)
LEMMA PieceIs == Piece = PiecesOf(Cmd \cup {Garbage})
BY DEF Piece, PiecesOf

LEMMA ReceiveBrings ==
    ASSUME TypeInv, NEW k \in 0..Len(inFlight), NEW more \in BOOLEAN,
           k + (IF more THEN 1 ELSE 0) <= Len(inFlight), Receive(k, more)
    PROVE  /\ buf' \in Seq(Piece) /\ Len(buf') = k + (IF more THEN 1 ELSE 0)
           /\ \A i \in 1..Len(buf') : buf'[i].of = inFlight[i] /\ (buf'[i].last <=> i <= k)
           /\ inFlight' \in Seq(Cmd \cup {Garbage}) /\ (more => inFlight' # <<>>)
<1>1. inFlight \in Seq(Cmd \cup {Garbage}) /\ Len(inFlight) \in Nat /\ k \in Nat
  BY LenProperties DEF TypeInv, TypeOK
<1>2. \A i \in 1..Len(inFlight) : inFlight[i] \in Cmd \cup {Garbage}
  BY <1>1, ElementOfSeq
<1> DEFINE whole == [i \in 1..k |-> [of |-> inFlight[i], first |-> ~(i = 1 /\ cut),
                                     last |-> TRUE]]
           begun == IF more THEN <<[of |-> inFlight[k + 1], first |-> TRUE, last |-> FALSE]>>
                            ELSE <<>>
<1>3. whole \in Seq(Piece) /\ Len(whole) = k
      /\ \A i \in 1..k : whole[i].of = inFlight[i] /\ whole[i].last = TRUE
  <2>1. \A i \in 1..k : whole[i] \in Piece
    BY <1>1, <1>2 DEF Piece
  <2> QED
    BY <1>1, <2>1
<1>4. /\ begun \in Seq(Piece) /\ Len(begun) = (IF more THEN 1 ELSE 0)
      /\ more => begun[1].of = inFlight[k + 1] /\ begun[1].last = FALSE
  <2>1. more => [of |-> inFlight[k + 1], first |-> TRUE, last |-> FALSE] \in Piece
    BY <1>1, <1>2 DEF Piece
  <2> QED
    BY <2>1
<1>5. buf' = whole \o begun /\ inFlight' = SubSeq(inFlight, k + 1, Len(inFlight))
  BY DEF Receive
<1> HIDE DEF whole, begun
<1>b. Len(begun) = (IF more THEN 1 ELSE 0) /\ Len(begun) \in {0, 1} /\ (Len(begun) = 1 => more)
  BY <1>4
<1>6. /\ buf' \in Seq(Piece) /\ Len(buf') = k + Len(begun)
      /\ \A i \in 1..k + Len(begun) : buf'[i] = IF i <= k THEN whole[i] ELSE begun[i - k]
  <2>1. /\ whole \o begun \in Seq(Piece) /\ Len(whole \o begun) = Len(whole) + Len(begun)
        /\ \A i \in 1..Len(whole) + Len(begun) :
              (whole \o begun)[i] = IF i <= Len(whole) THEN whole[i] ELSE begun[i - Len(whole)]
    <3>1. whole \in Seq(Piece) /\ begun \in Seq(Piece)
      BY <1>3, <1>4
    <3> QED
      BY <3>1, ConcatProperties
  <2> QED
    BY <1>3, <1>5, <2>1
<1>7. ASSUME NEW i \in 1..Len(buf')
      PROVE  buf'[i].of = inFlight[i] /\ (buf'[i].last <=> i <= k)
  <2>1. CASE i <= k
    <3>1. i \in 1..k /\ buf'[i] = whole[i]
      BY <1>1, <1>b, <1>6, <2>1
    <3> QED
      BY <1>3, <3>1
  <2>2. CASE i > k
    <3>1. i = k + 1 /\ Len(begun) = 1 /\ i \in 1..k + Len(begun)
      BY <1>1, <1>b, <1>6, <2>2
    <3>2. buf'[i] = begun[1]
      BY <1>1, <1>6, <3>1
    <3>3. buf'[i].of = inFlight[i] /\ buf'[i].last = FALSE
      BY <1>b, <1>4, <3>1, <3>2
    <3> QED
      BY <1>1, <3>1, <3>3
  <2> QED
    BY <1>1, <2>1, <2>2
<1>8. inFlight' \in Seq(Cmd \cup {Garbage})
      /\ Len(inFlight') = IF k + 1 <= Len(inFlight) THEN Len(inFlight) - k ELSE 0
  <2>1. \A i \in (k + 1)..Len(inFlight) : inFlight[i] \in Cmd \cup {Garbage}
    BY <1>1, <1>2
  <2>2. /\ SubSeq(inFlight, k + 1, Len(inFlight)) \in Seq(Cmd \cup {Garbage})
        /\ Len(SubSeq(inFlight, k + 1, Len(inFlight)))
             = IF k + 1 <= Len(inFlight) THEN Len(inFlight) - (k + 1) + 1 ELSE 0
    BY <1>1, <2>1, SubSeqProperties
  <2> QED
    BY <1>1, <1>5, <2>2
<1>9. more => inFlight' # <<>>
  BY <1>1, <1>8, EmptyIffLen0
<1> QED
  BY <1>b, <1>6, <1>7, <1>8, <1>9

\* A value that is not the last of the call's.
LEMMA RespondMore ==
    ASSUME TypeInv, call = "read", NEW v \in Values, Respond(v),
           Len(responses) + 1 < Len(cmds)
    PROVE  /\ responses' = Append(responses, v) /\ UNCHANGED <<call, cmds, sent, part, got>>
           /\ responses' \in Seq(Values) /\ Len(responses') = Len(responses) + 1
<1>1. responses' = Append(responses, v) /\ UNCHANGED <<call, cmds, sent, part, got>>
  BY DEF Respond
<1> QED
  BY <1>1, AppendProperties DEF TypeInv, TypeOK

\* The last one: each command of the call is given a value.
LEMMA RespondLast ==
    ASSUME TypeInv, call = "read", NEW v \in Values, Respond(v),
           ~(Len(responses) + 1 < Len(cmds))
    PROVE  /\ Return /\ got' \in [Cmd -> Values]
           /\ Len(responses) + 1 = Len(cmds)
           /\ \A n \in Cmd : \/ got'[n] = got[n] /\ \A i \in 1..Len(cmds) : cmds[i] # n
                             \/ \E i \in 1..Len(cmds) :
                                   cmds[i] = n /\ got'[n] = Append(responses, v)[i]
<1> DEFINE all == Append(responses, v)
           At(n) == CHOOSE i \in 1..Len(cmds) : cmds[i] = n
<1>1. Len(responses) + 1 = Len(cmds) /\ responses \in Seq(Values) /\ got \in [Cmd -> Values]
      /\ Len(cmds) \in Nat /\ Len(responses) \in Nat
  BY LenProperties DEF TypeInv, TypeOK, CallShape
<1>2. \A i \in 1..Len(cmds) : all[i] \in Values
  <2>1. all \in Seq(Values) /\ Len(all) = Len(cmds)
    BY <1>1, AppendProperties
  <2> QED
    BY <2>1, ElementOfSeq
<1>3. Return
      /\ got' = [n \in Cmd |-> IF \E i \in 1..Len(cmds) : cmds[i] = n THEN all[At(n)] ELSE got[n]]
  BY DEF Respond
<1>4. ASSUME NEW n \in Cmd, NEW i \in 1..Len(cmds), cmds[i] = n
      PROVE  At(n) \in 1..Len(cmds) /\ cmds[At(n)] = n
  BY <1>4
<1> HIDE DEF all, At
<1>5. ASSUME NEW n \in Cmd
      PROVE  /\ got'[n] \in Values
             /\ \/ got'[n] = got[n] /\ \A i \in 1..Len(cmds) : cmds[i] # n
                \/ \E i \in 1..Len(cmds) : cmds[i] = n /\ got'[n] = all[i]
  <2>1. CASE \E i \in 1..Len(cmds) : cmds[i] = n
    <3>1. got'[n] = all[At(n)] /\ At(n) \in 1..Len(cmds) /\ cmds[At(n)] = n
      BY <1>3, <1>4, <2>1
    <3> QED
      BY <1>2, <3>1
  <2>2. CASE \A i \in 1..Len(cmds) : cmds[i] # n
    BY <1>1, <1>3, <2>2
  <2> QED
    BY <2>1, <2>2
<1>6. got' \in [Cmd -> Values]
  BY <1>3, <1>5
<1> QED
  BY <1>1, <1>3, <1>5, <1>6 DEF all

(***************************************************************************)
(* Types                                                                   *)
(***************************************************************************)
\* A call that returned holds nothing.
NoCall ==
    /\ call = "none" /\ cmds \in Seq(Cmd) /\ cmds = <<>> /\ Len(cmds) = 0
    /\ sent = 0 /\ sent \in 0..Len(cmds) /\ part = FALSE
    /\ responses \in Seq(Values) /\ responses = <<>> /\ Len(responses) = 0
    /\ Len(responses) <= sent

LEMMA Returned == ASSUME Return PROVE NoCall'
BY EmptySeq DEF Return, NoCall

LEMMA TypeInit == Init => TypeInv
<1> SUFFICES ASSUME Init PROVE TypeInv
  OBVIOUS
<1>1. NoCall
  BY EmptySeq DEF Init, NoCall
<1>2. CallShape /\ LinkShape
  BY DEF Init, CallShape, LinkShape
<1>3. /\ state \in {"Unconnected", "Connected", "Closed"} /\ ec \in BOOLEAN
      /\ buf \in Seq(Piece) /\ inFlight \in Seq(Cmd \cup {Garbage})
      /\ cut \in BOOLEAN /\ torn \in BOOLEAN /\ clean \in BOOLEAN
      /\ sock \in {"closed", "opened", "connected", "broken"}
  BY EmptySeq DEF Init
<1>4. /\ parser \in 0..Garbage /\ next \in 1..(MaxCmd + 1) /\ got \in [Cmd -> Values]
      /\ connects \in 0..MaxConnects /\ closes \in 0..MaxCloses
  BY BoundsAssumption DEF Init, None, Garbage, NoValue, Values
<1> QED
  BY <1>1, <1>2, <1>3, <1>4 DEF NoCall, TypeInv, TypeOK

LEMMA TypeNext == ASSUME TypeInv, [Next]_vars PROVE TypeInv'
<1>t. TypeOK /\ CallShape /\ LinkShape
  BY DEF TypeInv
<1>n. /\ MaxCmd \in Nat /\ Len(cmds) \in Nat /\ Len(responses) \in Nat
      /\ cmds \in Seq(Cmd) /\ responses \in Seq(Values)
  BY <1>t, BoundsAssumption, LenProperties DEF TypeOK
<1> USE DEF members, calling, socket, history
<1>1. ASSUME connect PROVE TypeInv'
  <2>1. connects' \in 0..MaxConnects
    BY <1>1, <1>t, BoundsAssumption DEF connect, TypeOK
  <2>2. UNCHANGED <<state, cmds, sent, part, responses, sock>> /\ call = "none"
        /\ call' \in {"none", "connect"} /\ ec' \in BOOLEAN
        /\ (call' = "connect" => sock \in {"closed", "opened"})
    BY <1>1 DEF connect
  <2>3. UNCHANGED <<buf, parser, inFlight, cut, torn, next, got, clean, closes>>
    BY <1>1 DEF connect
  <2> QED
    BY <1>t, <2>1, <2>2, <2>3 DEF TypeInv, TypeOK, CallShape, LinkShape
<1>2. ASSUME ConnectEnds PROVE TypeInv'
  <2>1. clean' \in BOOLEAN
    BY <1>2, <1>t DEF ConnectEnds, Connected, NotConnected, TypeOK
  <2> QED
    BY <1>2, <1>t, <2>1 DEF ConnectEnds, Connected, NotConnected, TypeInv, TypeOK, CallShape, LinkShape
<1>3. ASSUME disConnected PROVE TypeInv'
  <2>1. closes' \in 0..MaxCloses
    BY <1>3, <1>t, BoundsAssumption DEF disConnected, TypeOK
  <2> QED
    BY <1>3, <1>t, <2>1, EmptySeq DEF disConnected, TypeInv, TypeOK, CallShape, LinkShape
<1>4. ASSUME NEW n \in 1..MaxPipe, NEW fresh \in BOOLEAN, command(n, fresh) PROVE TypeInv'
  <2>1. n \in Nat \ {0} /\ next \in 1..(MaxCmd + 1) /\ next + n - 1 <= MaxCmd
    BY <1>4, <1>t, BoundsAssumption DEF command, TypeOK
  <2>2. cmds' \in Seq(Cmd) /\ Len(cmds') = n
    BY <1>4, <1>n, <2>1 DEF command, Collected, Cmd
  <2>3. next' \in 1..(MaxCmd + 1)
    BY <1>4, <1>n, <2>1 DEF command
  <2>4. /\ call' = "write" /\ ec' \in BOOLEAN /\ call = "none" /\ state = "Connected"
        /\ UNCHANGED <<state, buf, parser, sent, part, responses, sock, inFlight, cut, torn,
                       got, clean, connects, closes>>
    BY <1>4, <1>t, Zenon DEF command, TypeOK
  <2> QED
    BY <1>t, <2>1, <2>2, <2>3, <2>4 DEF TypeInv, TypeOK, CallShape, LinkShape
<1>5. ASSUME WriteSome PROVE TypeInv'
  <2>1. CASE part' = TRUE /\ UNCHANGED <<call, cmds, sent, responses, inFlight, clean>>
    BY <1>5, <1>t, <2>1 DEF WriteSome, TypeInv, TypeOK, CallShape, LinkShape
  <2>2. CASE Arrives(cmds[sent + 1]) /\ ~(part' = TRUE /\ UNCHANGED <<call, cmds, sent, responses, inFlight, clean>>)
    <3>1. call = "write" /\ sent \in Nat /\ sent + 1 \in 1..Len(cmds)
      BY <1>5, <1>t, <1>n DEF WriteSome, TypeOK, CallShape
    <3>2. cmds[sent + 1] \in Cmd
      BY <1>n, <3>1, ElementOfSeq
    <3>3. inFlight' \in Seq(Cmd \cup {Garbage})
      <4>1. \A x \in Cmd \cup {Garbage} : Append(inFlight, x) \in Seq(Cmd \cup {Garbage})
        BY <1>t, AppendProperties DEF TypeOK
      <4>2. inFlight' \in {inFlight, Append(inFlight, cmds[sent + 1]), Append(inFlight, Garbage)}
        BY <2>2 DEF Arrives
      <4> QED
        BY <1>t, <3>2, <4>1, <4>2 DEF TypeOK
    <3>4. UNCHANGED <<state, buf, parser, ec, sock, cut, torn, next, got, connects, closes>>
      BY <1>5 DEF WriteSome
    <3>5. state = "Connected"
      BY <1>t, <3>1 DEF CallShape
    <3>6. CASE ec
      <4>1. Return /\ clean' = FALSE
        BY <1>5, <2>2, <3>6 DEF WriteSome
      <4> QED
        BY <1>t, <3>3, <3>4, <3>5, <4>1, Returned
           DEF NoCall, TypeInv, TypeOK, CallShape, LinkShape
    <3>7. CASE ~ec
      <4>1. sent' = sent + 1 /\ part' = FALSE /\ call' = AfterSend
            /\ UNCHANGED <<cmds, responses, clean>>
        BY <1>5, <2>2, <3>7 DEF WriteSome
      <4>2. responses = <<>> /\ Len(responses) = 0
        BY <1>t, <3>1, EmptySeq DEF CallShape
      <4>3. /\ sent' \in 0..Len(cmds') /\ Len(responses') <= sent'
            /\ \/ call' = "read" /\ sent' = Len(cmds') /\ Len(responses') < Len(cmds')
               \/ call' = "write" /\ sent' < Len(cmds') /\ responses' = <<>>
        BY <1>n, <3>1, <4>1, <4>2 DEF AfterSend
      <4>4. cmds' \in Seq(Cmd) /\ responses' \in Seq(Values)
        BY <1>n, <4>1
      <4> QED
        BY <1>t, <3>3, <3>4, <3>5, <4>1, <4>3, <4>4 DEF TypeInv, TypeOK, CallShape, LinkShape
    <3> QED
      BY <3>6, <3>7
  <2> QED
    BY <1>5, <2>1, <2>2 DEF WriteSome
<1>6. ASSUME WriteStops \/ ReadStops PROVE TypeInv'
  <2>1. Return /\ ec' = TRUE /\ clean' = FALSE /\ call \in {"write", "read"}
        /\ UNCHANGED <<members, sock, inFlight, cut, next, got, connects, closes>>
    BY <1>6 DEF WriteStops, ReadStops
  <2>2. torn' \in BOOLEAN
    BY <1>6, <1>t DEF WriteStops, ReadStops, TypeOK
  <2>3. state = "Connected"
    BY <1>t, <2>1 DEF CallShape
  <2> QED
    BY <1>t, <2>1, <2>2, <2>3, Returned DEF NoCall, TypeInv, TypeOK, CallShape, LinkShape
<1>7. ASSUME NEW k \in 0..Len(inFlight), NEW more \in BOOLEAN,
             k + (IF more THEN 1 ELSE 0) <= Len(inFlight), Receive(k, more)
      PROVE  TypeInv'
  <2>1. buf' \in Seq(Piece) /\ inFlight' \in Seq(Cmd \cup {Garbage})
    BY <1>7, ReceiveBrings
  <2>2. call = "read" /\ cut' \in BOOLEAN
        /\ UNCHANGED <<state, parser, calling, sock, torn, history>>
    BY <1>7 DEF Receive
  <2>3. state = "Connected"
    BY <1>t, <2>2 DEF CallShape
  <2> QED
    BY <1>t, <2>1, <2>2, <2>3 DEF TypeInv, TypeOK, CallShape, LinkShape
<1>8. ASSUME NEW v \in Values, call = "read", Respond(v), buf' \in Seq(Piece),
             parser' \in 0..Garbage, clean' \in BOOLEAN,
             UNCHANGED <<state, ec, socket, next, connects, closes>>
      PROVE  TypeInv'
  <2>1. state = "Connected"
    BY <1>t, <1>8 DEF CallShape
  <2>2. CASE Len(responses) + 1 < Len(cmds)
    <3>1. /\ UNCHANGED <<call, cmds, sent, part, got>>
          /\ responses' \in Seq(Values) /\ Len(responses') = Len(responses) + 1
      BY <1>8, <2>2, RespondMore
    <3> QED
      BY <1>t, <1>n, <1>8, <2>1, <2>2, <3>1 DEF TypeInv, TypeOK, CallShape, LinkShape
  <2>3. CASE ~(Len(responses) + 1 < Len(cmds))
    <3>1. Return /\ got' \in [Cmd -> Values]
      BY <1>8, <2>3, RespondLast
    <3> QED
      BY <1>t, <1>8, <2>1, <3>1, Returned DEF NoCall, TypeInv, TypeOK, CallShape, LinkShape
  <2> QED
    BY <2>2, <2>3
<1>p. ASSUME call = "read", buf # <<>>
      PROVE  /\ Head(buf) \in Piece /\ Tail(buf) \in Seq(Piece)
             /\ Head(buf).of \in Values /\ Head(buf).of \in 0..Garbage
  <2>1. Head(buf) \in Piece /\ Tail(buf) \in Seq(Piece)
    BY <1>p, <1>t, HeadTailProperties DEF TypeOK
  <2> QED
    BY <2>1, <1>n DEF Piece, Cmd, Garbage, Values, NoValue
<1>9. ASSUME ParsePiece PROVE TypeInv'
  <2>1. call = "read" /\ buf # <<>> /\ UNCHANGED <<state, ec, socket, next, clean, connects, closes>>
    BY <1>9 DEF ParsePiece
  <2>2. buf' = Tail(buf)
    <3>1. <<>> \o Tail(buf) = Tail(buf)
      BY <1>p, <2>1, ConcatEmptySeq
    <3> QED
      BY <1>9, <3>1 DEF ParsePiece, KeepRest
  <2>3. CASE Head(buf).last
    <3>1. Respond(Head(buf).of) /\ parser' \in 0..Garbage
      BY <1>9, <1>n, <2>3 DEF ParsePiece, None, Garbage
    <3> QED
      BY <1>8, <1>p, <1>t, <2>1, <2>2, <3>1 DEF TypeOK
  <2>4. CASE ~Head(buf).last
    <3>1. parser' = Head(buf).of /\ UNCHANGED <<call, cmds, sent, part, responses, got>>
      BY <1>9, <2>4 DEF ParsePiece, Waits
    <3> QED
      BY <1>p, <1>t, <2>1, <2>2, <3>1 DEF TypeInv, TypeOK, CallShape, LinkShape
  <2> QED
    BY <2>3, <2>4
<1>10. ASSUME MisreadPiece PROVE TypeInv'
  <2>1. /\ call = "read" /\ buf # <<>> /\ clean' = FALSE
        /\ UNCHANGED <<state, ec, socket, next, connects, closes>>
    BY <1>10 DEF MisreadPiece
  <2>2. state = "Connected"
    BY <1>t, <2>1 DEF CallShape
  <2>3. buf' \in Seq(Piece)
    <3>1. [Head(buf) EXCEPT !.first = FALSE] \in Piece
      BY <1>p, <2>1 DEF Piece
    <3>2. <<>> \in Seq(Piece) /\ <<[Head(buf) EXCEPT !.first = FALSE]>> \in Seq(Piece)
      BY <3>1
    <3>3. \E left \in Seq(Piece) : buf' = left \o Tail(buf)
      BY <1>10, <3>2 DEF MisreadPiece, KeepRest
    <3> QED
      BY <1>p, <2>1, <3>3, ConcatProperties
  <2>4. CASE parser' = None /\ Return /\ UNCHANGED got
    <3>1. parser' \in 0..Garbage
      BY <1>n, <2>4 DEF None, Garbage
    <3> QED
      BY <1>t, <2>1, <2>2, <2>3, <2>4, <3>1, Returned
         DEF NoCall, TypeInv, TypeOK, CallShape, LinkShape
  <2>5. CASE parser' = None /\ (Respond(NoValue) \/ Respond(Garbage))
    <3>1. NoValue \in Values /\ Garbage \in Values /\ None \in 0..Garbage
      BY <1>n DEF NoValue, Garbage, None, Values
    <3> QED
      BY <1>8, <2>1, <2>3, <2>5, <3>1
  <2>6. CASE parser' = Head(buf).of /\ Waits
    BY <1>p, <1>t, <2>1, <2>2, <2>3, <2>6 DEF Waits, TypeInv, TypeOK, CallShape, LinkShape
  <2> QED
    BY <1>10, <2>4, <2>5, <2>6 DEF MisreadPiece
<1>11. ASSUME Break PROVE TypeInv'
  BY <1>11, <1>t DEF Break, TypeInv, TypeOK, CallShape, LinkShape
<1>12. ASSUME UNCHANGED vars PROVE TypeInv'
  BY <1>12, <1>t DEF vars, TypeInv, TypeOK, CallShape, LinkShape
<1> QED
  BY <1>1, <1>2, <1>3, <1>4, <1>5, <1>6, <1>7, <1>9, <1>10, <1>11, <1>12
     DEF Next, Application, Reading

\* Whatever sends, reads and the network do, the variables hold values of their
\* kinds, and a call never reads more values than it sent commands.
THEOREM TypeCorrect == Spec => []TypeOK
<1>1. TypeInv => TypeOK
  BY DEF TypeInv
<1> QED
  BY <1>1, TypeInit, TypeNext, PTL DEF Spec

(***************************************************************************)
(* What steps do to the commands of a call                                 *)
(***************************************************************************)

\* All commands of the call are given a value: a last one, after `responses'.
Answered(v) ==
    /\ cmds' = <<>> /\ UNCHANGED next /\ Len(responses) + 1 = Len(cmds)
    /\ got' \in [Cmd -> Values]
    /\ \A n \in Cmd : \/ got'[n] = got[n] /\ \A i \in 1..Len(cmds) : cmds[i] # n
                      \/ \E i \in 1..Len(cmds) :
                            cmds[i] = n /\ got'[n] = Append(responses, v)[i]

Begins(n) ==
    /\ cmds = <<>> /\ cmds' = Collected(n) /\ next' = next + n /\ next + n - 1 <= MaxCmd
    /\ UNCHANGED <<got, clean>>

GivesUp == (cmds = <<>> \/ ~clean') /\ cmds' = <<>> /\ UNCHANGED <<next, got>>

GoesOn == UNCHANGED <<cmds, next, got>> /\ (clean' = clean \/ ~clean')

LEMMA CallSteps ==
    ASSUME TypeInv, [Next]_vars
    PROVE  \/ \E n \in 1..MaxCmd : Begins(n)
           \/ \E v \in Values : Answered(v) /\ ~clean'
           \/ ParsePiece /\ Answered(Head(buf).of) /\ UNCHANGED clean
           \/ GivesUp \/ GoesOn
<1>t. TypeOK /\ CallShape
  BY DEF TypeInv
<1> USE DEF members, calling, socket, history
<1>1. ASSUME connect \/ disConnected \/ Break \/ UNCHANGED vars PROVE GoesOn
  BY <1>1 DEF GoesOn, connect, disConnected, Break, vars
<1>2. ASSUME ConnectEnds PROVE GivesUp
  BY <1>2, <1>t DEF GivesUp, ConnectEnds, CallShape
<1>3. ASSUME NEW n \in 1..MaxPipe, NEW fresh \in BOOLEAN, command(n, fresh)
      PROVE  \E m \in 1..MaxCmd : Begins(m)
  <2>1. n \in 1..MaxCmd
    BY <1>3, <1>t, BoundsAssumption DEF command, TypeOK
  <2>2. Begins(n)
    BY <1>3, <1>t DEF Begins, command, CallShape
  <2> QED
    BY <2>1, <2>2
<1>4. ASSUME WriteSome PROVE GivesUp \/ GoesOn
  BY <1>4 DEF WriteSome, Return, GivesUp, GoesOn
<1>5. ASSUME WriteStops \/ ReadStops PROVE GivesUp
  BY <1>5 DEF WriteStops, ReadStops, Return, GivesUp
<1>6. ASSUME NEW k, NEW more, Receive(k, more) PROVE GoesOn
  BY <1>6 DEF Receive, GoesOn
<1>7. ASSUME NEW v \in Values, call = "read", Respond(v), UNCHANGED next
      PROVE  Answered(v) \/ UNCHANGED <<cmds, next, got>>
  <2>1. CASE Len(responses) + 1 < Len(cmds)
    BY <1>7, <2>1, RespondMore
  <2>2. CASE ~(Len(responses) + 1 < Len(cmds))
    BY <1>7, <2>2, RespondLast DEF Answered, Return
  <2> QED
    BY <2>1, <2>2
<1>8. ASSUME ParsePiece
      PROVE  (ParsePiece /\ Answered(Head(buf).of) /\ UNCHANGED clean) \/ GoesOn
  <2>1. call = "read" /\ buf # <<>> /\ UNCHANGED <<next, clean>>
    BY <1>8 DEF ParsePiece
  <2>2. CASE Head(buf).last
    <3>1. Head(buf) \in Piece
      BY <1>t, <2>1, HeadTailProperties DEF TypeOK
    <3>2. Head(buf).of \in Values
      BY <3>1, BoundsAssumption DEF Piece, Cmd, Garbage, Values, NoValue
    <3>3. Respond(Head(buf).of)
      BY <1>8, <2>2 DEF ParsePiece
    <3> QED
      BY <1>7, <1>8, <2>1, <3>2, <3>3 DEF GoesOn
  <2>3. CASE ~Head(buf).last
    BY <1>8, <2>1, <2>3 DEF ParsePiece, Waits, GoesOn
  <2> QED
    BY <2>2, <2>3
<1>9. ASSUME MisreadPiece
      PROVE  (\E v \in Values : Answered(v) /\ ~clean') \/ GivesUp \/ GoesOn
  <2>1. call = "read" /\ clean' = FALSE /\ UNCHANGED next
    BY <1>9 DEF MisreadPiece
  <2>2. CASE Return /\ UNCHANGED got
    BY <2>1, <2>2 DEF Return, GivesUp
  <2>3. CASE Respond(NoValue) \/ Respond(Garbage)
    <3>1. NoValue \in Values /\ Garbage \in Values
      BY BoundsAssumption DEF NoValue, Garbage, Values
    <3> QED
      BY <1>7, <2>1, <2>3, <3>1 DEF GoesOn
  <2>4. CASE Waits
    BY <2>1, <2>4 DEF Waits, GoesOn
  <2> QED
    BY <1>9, <2>2, <2>3, <2>4 DEF MisreadPiece
<1> QED
  BY <1>1, <1>2, <1>3, <1>4, <1>5, <1>6, <1>8, <1>9 DEF Next, Application, Reading

LEMMA UnansweredInit == Init => Unanswered
BY EmptySeq DEF Init, Unanswered

LEMMA UnansweredNext == ASSUME TypeInv, Unanswered, [Next]_vars PROVE Unanswered'
<1>t. /\ cmds \in Seq(Cmd) /\ Len(cmds) \in Nat /\ MaxCmd \in Nat
      /\ next \in 1..(MaxCmd + 1) /\ got \in [Cmd -> Values]
  BY BoundsAssumption, LenProperties DEF TypeInv, TypeOK
<1>e. ASSUME cmds' = <<>> PROVE Len(cmds') = 0
  BY <1>e, EmptySeq
<1>1. ASSUME NEW n \in 1..MaxCmd, Begins(n) PROVE Unanswered'
  <2>1. n \in Nat /\ Len(cmds') = n /\ \A i \in 1..n : cmds'[i] = next + i - 1 /\ cmds'[i] \in Cmd
    BY <1>1, <1>t DEF Begins, Collected, Cmd
  <2>2. next' = next + n /\ got' = got /\ next \in Nat
    BY <1>1, <1>t DEF Begins
  <2>3. \A i, j \in 1..Len(cmds') : i < j => cmds'[i] < cmds'[j]
    BY <2>1, <2>2
  <2>4. \A m \in Cmd : m >= next => got'[m] = None
    BY <2>2 DEF Unanswered
  <2>5. ASSUME NEW i \in 1..Len(cmds') PROVE cmds'[i] < next' /\ got'[cmds'[i]] = None
    <3>1. cmds'[i] \in Cmd /\ cmds'[i] >= next /\ cmds'[i] < next'
      BY <2>1, <2>2
    <3> QED
      BY <2>4, <3>1
  <2>6. \A m \in Cmd : m >= next' => got'[m] = None
    BY <1>t, <2>1, <2>2, <2>4 DEF Cmd
  <2> QED
    BY <2>3, <2>5, <2>6 DEF Unanswered
<1>2. ASSUME NEW v, Answered(v) PROVE Unanswered'
  <2>1. \A n \in Cmd : n >= next => \A i \in 1..Len(cmds) : cmds[i] # n
    BY <1>t, ElementOfSeq DEF Unanswered, Cmd
  <2>2. \A n \in Cmd : n >= next => got'[n] = None
    BY <1>2, <2>1 DEF Answered, Unanswered
  <2> QED
    BY <1>2, <1>e, <2>2 DEF Answered, Unanswered
<1>3. ASSUME GivesUp PROVE Unanswered'
  BY <1>3, <1>e DEF GivesUp, Unanswered
<1>4. ASSUME GoesOn PROVE Unanswered'
  BY <1>4 DEF GoesOn, Unanswered
<1> QED
  BY <1>1, <1>2, <1>3, <1>4, CallSteps

(***************************************************************************)
(* Nothing is left behind                                                  *)
(*                                                                         *)
(* NothingLeftBehind is not inductive.  A value goes to its own command    *)
(* only when those before it did; a call that ends leaves no part of a     *)
(* reply in buf only because the rest of that reply would still be due;    *)
(* and what the server gets is whole only while nothing is torn.           *)
(***************************************************************************)
Owed == SubSeq(cmds, Len(responses) + 1, sent)
Due  == Completes(buf) \o inFlight

\* NothingLeftBehind and InStep without their hypothesis.
Clean ==
    /\ IF sock = "connected" THEN Due = Owed ELSE IsPrefixOf(Due, Owed)
    /\ OnlyLastCut(buf)
    /\ call # "read" => buf = <<>> /\ parser = None
    /\ ~torn
    /\ buf # <<>> /\ ~buf[Len(buf)].last => inFlight # <<>>
    /\ \A i \in 1..Len(responses) : responses[i] = cmds[i]

LEMMA CleanIs == CleanInv <=> (clean /\ state = "Connected" => Clean)
BY DEF CleanInv, NothingLeftBehind, InStep, Clean, Owed, Due

LEMMA DueTypes ==
    ASSUME TypeInv
    PROVE  /\ Due \in Seq(Cmd \cup {Garbage}) /\ Owed \in Seq(Cmd \cup {Garbage})
           /\ Completes(buf) \in Seq(Cmd \cup {Garbage})
           /\ inFlight \in Seq(Cmd \cup {Garbage}) /\ cmds \in Seq(Cmd \cup {Garbage})
           /\ buf \in Seq(PiecesOf(Cmd \cup {Garbage}))
           /\ Len(responses) \in Nat /\ Len(cmds) \in Nat /\ sent \in Nat
           /\ Len(responses) <= sent /\ sent <= Len(cmds)
<1>1. /\ inFlight \in Seq(Cmd \cup {Garbage}) /\ cmds \in Seq(Cmd)
      /\ responses \in Seq(Values) /\ sent \in 0..Len(cmds) /\ Len(responses) <= sent
  BY DEF TypeInv, TypeOK
<1>2. cmds \in Seq(Cmd \cup {Garbage})
  BY <1>1, SeqMonotonic
<1>3. Len(responses) \in Nat /\ Len(cmds) \in Nat
  BY <1>1, LenProperties
<1>4. buf \in Seq(PiecesOf(Cmd \cup {Garbage}))
  BY PieceIs DEF TypeInv, TypeOK
<1>5. Completes(buf) \in Seq(Cmd \cup {Garbage})
  BY <1>4, CompletesType
<1>6. Due \in Seq(Cmd \cup {Garbage})
  BY <1>1, <1>5, ConcatProperties DEF Due
<1>7. Owed \in Seq(Cmd \cup {Garbage})
  <2>1. \A i \in (Len(responses) + 1)..sent : cmds[i] \in Cmd \cup {Garbage}
    <3>1. \A i \in (Len(responses) + 1)..sent : i \in 1..Len(cmds)
      BY <1>1, <1>3
    <3> QED
      BY <1>2, <3>1, ElementOfSeq
  <2> QED
    BY <1>1, <1>3, <2>1, SubSeqProperties DEF Owed
<1> QED
  BY <1>1, <1>2, <1>3, <1>4, <1>5, <1>6, <1>7

\* While a call holds nothing, nothing is owed, so nothing is due.
LEMMA NothingDue ==
    ASSUME TypeInv, Clean, call = "none"
    PROVE  Owed = <<>> /\ Due = <<>> /\ inFlight = <<>> /\ buf = <<>>
<1>1. Owed = <<>>
  BY SubSeqEmpty, EmptySeq DEF TypeInv, CallShape, Owed
<1>2. Due = <<>>
  BY <1>1, DueTypes, PrefixOfEmpty DEF Clean
<1>3. inFlight = <<>>
  BY <1>2, DueTypes, ConcatSimplifications DEF Due
<1> QED
  BY <1>1, <1>2, <1>3 DEF Clean

LEMMA CleanWrite ==
    ASSUME TypeInv, Clean, WriteSome, clean' PROVE Clean'
<1>1. /\ call = "write" /\ state = "Connected" /\ responses = <<>> /\ Len(responses) = 0
      /\ buf = <<>> /\ parser = None /\ ~torn
      /\ UNCHANGED <<buf, parser, sock, torn>>
  BY EmptySeq DEF WriteSome, TypeInv, CallShape, Clean, members
<1>2. CASE UNCHANGED <<call, cmds, sent, responses, inFlight>>
  BY <1>1, <1>2 DEF Clean, Due, Owed
<1>3. CASE Arrives(cmds[sent + 1]) /\ ~ec /\ sent' = sent + 1 /\ UNCHANGED <<cmds, responses>>
  <2>1. sent \in Nat /\ sent + 1 <= Len(cmds)
    BY <1>1, DueTypes DEF TypeInv, CallShape
  <2>2. /\ cmds[sent + 1] \in Cmd \cup {Garbage}
        /\ Owed' = Append(Owed, cmds[sent + 1])
    BY <1>1, <1>3, <2>1, DueTypes, SubSeqAppend DEF Owed
  <2>3. CASE sock = "connected"
    <3>1. inFlight' = Append(inFlight, cmds[sent + 1])
      BY <1>1, <1>3, <2>3 DEF Arrives
    <3>2. Due' = Append(Due, cmds[sent + 1])
      BY <1>1, <2>2, <3>1, DueTypes, ConcatAppend DEF Due
    <3> QED
      BY <1>1, <1>3, <2>2, <2>3, <3>2 DEF Clean
  <2>4. CASE sock # "connected"
    <3>1. inFlight' = inFlight /\ IsPrefixOf(Due, Owed)
      BY <1>3, <2>4 DEF Arrives, Clean
    <3>2. Due' = Due
      BY <1>1, <3>1 DEF Due
    <3>3. IsPrefixOf(Due', Owed')
      BY <2>2, <3>1, <3>2, DueTypes, PrefixAppend
    <3> QED
      BY <1>1, <1>3, <2>4, <3>3 DEF Clean
  <2> QED
    BY <2>3, <2>4
<1> QED
  BY <1>2, <1>3 DEF WriteSome

LEMMA CleanReceive ==
    ASSUME TypeInv, Clean, NEW k \in 0..Len(inFlight), NEW more \in BOOLEAN,
           k + (IF more THEN 1 ELSE 0) <= Len(inFlight), Receive(k, more)
    PROVE  Clean'
<1>1. /\ call = "read" /\ buf = <<>> /\ UNCHANGED <<parser, calling, sock, torn>>
      /\ inFlight' = SubSeq(inFlight, k + 1, Len(inFlight))
  BY DEF Receive
<1>2. /\ buf' \in Seq(Piece) /\ Len(buf') = k + (IF more THEN 1 ELSE 0)
      /\ \A i \in 1..Len(buf') : buf'[i].of = inFlight[i] /\ (buf'[i].last <=> i <= k)
      /\ more => inFlight' # <<>>
  BY ReceiveBrings
<1>3. more => k < Len(inFlight)
  BY DueTypes, LenProperties
<1>4. OnlyLastCut(buf') /\ Completes(buf') \o SubSeq(inFlight, k + 1, Len(inFlight)) = inFlight
  <2>1. inFlight \in Seq(Cmd \cup {Garbage}) /\ buf' \in Seq(PiecesOf(Cmd \cup {Garbage}))
    BY <1>2, DueTypes, PieceIs
  <2> DEFINE chunk == buf'
             values == Cmd \cup {Garbage}
  <2>2. /\ inFlight \in Seq(values) /\ k \in 0..Len(inFlight) /\ more \in BOOLEAN
        /\ more => k < Len(inFlight)
        /\ chunk \in Seq(PiecesOf(values)) /\ Len(chunk) = k + (IF more THEN 1 ELSE 0)
        /\ \A i \in 1..Len(chunk) : chunk[i].of = inFlight[i] /\ (chunk[i].last <=> i <= k)
    BY <1>2, <1>3, <2>1
  <2> HIDE DEF chunk, values
  <2>3. /\ OnlyLastCut(chunk)
        /\ Completes(chunk) \o SubSeq(inFlight, k + 1, Len(inFlight)) = inFlight
    BY <2>2, ChunkCompletes
  <2> QED
    BY <2>3 DEF chunk
<1>5. Due' = inFlight /\ Due = inFlight
  <2>1. <<>> \o inFlight = inFlight
    BY DueTypes, ConcatEmptySeq
  <2> QED
    BY <1>1, <1>4, <2>1, CompletesNothing DEF Due
<1>6. Owed' = Owed
  BY <1>1 DEF Owed, calling
<1>7. buf' # <<>> /\ ~buf'[Len(buf')].last => more
  BY <1>2, EmptyIffLen0, LenProperties
<1> QED
  BY <1>1, <1>2, <1>4, <1>5, <1>6, <1>7 DEF Clean, calling

\* The first reply due is the one to the first command that waits for it.
LEMMA FirstDue ==
    ASSUME TypeInv, Clean, call = "read", buf # <<>>, Head(buf).last
    PROVE  /\ Len(responses) + 1 \in 1..Len(cmds) /\ Head(buf).of = cmds[Len(responses) + 1]
           /\ Completes(Tail(buf)) \o inFlight = Tail(Due) /\ OnlyLastCut(Tail(buf))
           /\ SubSeq(cmds, Len(responses) + 2, sent) = Tail(Owed)
           /\ IF sock = "connected" THEN Tail(Due) = Tail(Owed)
                                    ELSE IsPrefixOf(Tail(Due), Tail(Owed))
<1>1. /\ Completes(buf) # <<>> /\ Head(Completes(buf)) = Head(buf).of
      /\ Completes(Tail(buf)) = Tail(Completes(buf)) /\ OnlyLastCut(Tail(buf))
  BY DueTypes, CompletesWhole DEF Clean
<1>2. /\ Due # <<>> /\ Head(Due) = Head(buf).of
      /\ Tail(Due) = Completes(Tail(buf)) \o inFlight
  BY <1>1, DueTypes, ConcatTail DEF Due
<1>3. sent = Len(cmds) /\ Len(responses) < Len(cmds)
  BY DEF TypeInv, TypeOK, CallShape
<1>4. /\ Head(Owed) = cmds[Len(responses) + 1]
      /\ Tail(Owed) = SubSeq(cmds, Len(responses) + 2, sent)
  <2>1. /\ Len(responses) + 1 \in Nat \ {0} /\ Len(responses) + 1 <= sent
        /\ (Len(responses) + 1) + 1 = Len(responses) + 2
    BY <1>3, DueTypes
  <2> QED
    BY <1>3, <2>1, DueTypes, SubSeqTail DEF Owed
<1>5. IsPrefixOf(Due, Owed)
  BY DueTypes, PrefixSame DEF Clean
<1>6. Head(Owed) = Head(Due) /\ IsPrefixOf(Tail(Due), Tail(Owed))
  BY <1>2, <1>5, DueTypes, PrefixTail
<1>7. IF sock = "connected" THEN Tail(Due) = Tail(Owed) ELSE IsPrefixOf(Tail(Due), Tail(Owed))
  BY <1>6 DEF Clean
<1>8. Len(responses) + 1 \in 1..Len(cmds) /\ Head(buf).of = cmds[Len(responses) + 1]
  BY <1>2, <1>3, <1>4, <1>6, DueTypes
<1> QED
  BY <1>1, <1>2, <1>4, <1>7, <1>8

\* Of a buffer that completes nothing, what is left is cut.
LEMMA NothingComplete ==
    ASSUME NEW S, NEW p \in Seq(PiecesOf(S)), Completes(p) = <<>>, p # <<>>
    PROVE  ~p[Len(p)].last
<1>1. Ended(p) = 0 /\ Len(p) \in Nat \ {0}
  BY CompletesType, EmptyIffLen0
<1> QED
  BY <1>1 DEF Ended

LEMMA CleanParse == ASSUME TypeInv, Clean, ParsePiece PROVE Clean'
<1>1. /\ call = "read" /\ buf # <<>> /\ UNCHANGED <<sock, inFlight, torn>>
  BY DEF ParsePiece, socket
<1>2. buf' = Tail(buf)
  <2>1. Tail(buf) \in Seq(Piece)
    BY <1>1, HeadTailProperties DEF TypeInv, TypeOK
  <2>2. <<>> \o Tail(buf) = Tail(buf)
    BY <2>1, ConcatEmptySeq
  <2> QED
    BY <2>2 DEF ParsePiece, KeepRest
<1>3. /\ buf' \in Seq(PiecesOf(Cmd \cup {Garbage})) /\ Len(buf') = Len(buf) - 1
      /\ Len(buf) \in Nat /\ \A i \in 1..Len(buf') : buf'[i] = buf[i + 1]
  BY <1>1, <1>2, DueTypes, HeadTailProperties, LenProperties
<1>4. buf' # <<>> => buf'[Len(buf')] = buf[Len(buf)]
  BY <1>3, EmptyIffLen0
<1>5. buf' # <<>> /\ ~buf'[Len(buf')].last => inFlight # <<>>
  BY <1>1, <1>4 DEF Clean
<1>6. CASE Head(buf).last
  <2>1. /\ Len(responses) + 1 \in 1..Len(cmds) /\ Head(buf).of = cmds[Len(responses) + 1]
        /\ Due' = Tail(Due) /\ OnlyLastCut(buf')
        /\ SubSeq(cmds, Len(responses) + 2, sent) = Tail(Owed)
        /\ IF sock = "connected" THEN Tail(Due) = Tail(Owed)
                                 ELSE IsPrefixOf(Tail(Due), Tail(Owed))
    BY <1>1, <1>2, <1>6, FirstDue DEF Due
  <2>2. Respond(Head(buf).of) /\ parser' = None /\ Head(buf).of \in Values
    <3>1. Head(buf) \in Piece
      BY <1>1, HeadTailProperties DEF TypeInv, TypeOK
    <3>2. Head(buf).of \in Values
      BY <3>1, BoundsAssumption DEF Piece, Cmd, Garbage, Values, NoValue
    <3> QED
      BY <1>6, <3>2 DEF ParsePiece
  <2>3. CASE Len(responses) + 1 < Len(cmds)
    <3>1. /\ responses' = Append(responses, Head(buf).of)
          /\ UNCHANGED <<call, cmds, sent>> /\ Len(responses') = Len(responses) + 1
      BY <1>1, <2>2, <2>3, RespondMore
    <3>2. Owed' = Tail(Owed)
      <4>1. Len(responses') + 1 = Len(responses) + 2
        BY <3>1, DueTypes
      <4> QED
        BY <2>1, <3>1, <4>1 DEF Owed
    <3>3. \A i \in 1..Len(responses') : responses'[i] = cmds[i]
      <4>1. /\ \A i \in 1..Len(responses) : responses'[i] = responses[i]
            /\ responses'[Len(responses) + 1] = Head(buf).of
        BY <2>2, <3>1, AppendProperties DEF TypeInv, TypeOK
      <4> QED
        BY <2>1, <3>1, <4>1, DueTypes DEF Clean
    <3> QED
      BY <1>1, <1>5, <2>1, <3>1, <3>2, <3>3 DEF Clean
  <2>4. CASE ~(Len(responses) + 1 < Len(cmds))
    <3>1. Return /\ Len(responses) + 1 = Len(cmds)
      BY <1>1, <2>2, <2>4, RespondLast
    <3>2. Owed' = <<>>
      <4>1. responses' = <<>> /\ sent' = 0 /\ Len(responses') = 0
        BY <3>1, EmptySeq DEF Return
      <4> QED
        BY <4>1, SubSeqEmpty DEF Owed
    <3>3. Tail(Owed) = <<>>
      <4>1. sent < Len(responses) + 2
        BY <3>1, DueTypes
      <4> QED
        BY <2>1, <4>1, SubSeqEmpty, DueTypes
    <3>4. Due' = <<>> /\ Tail(Due) \in Seq(Cmd \cup {Garbage})
      <4>1. Completes(buf') \o inFlight \in Seq(Cmd \cup {Garbage})
        BY <1>3, CompletesType, DueTypes, ConcatProperties
      <4>2. Due' \in Seq(Cmd \cup {Garbage})
        BY <1>1, <4>1 DEF Due
      <4> QED
        BY <2>1, <3>3, <4>2, PrefixOfEmpty
    <3>5. Completes(buf') = <<>> /\ inFlight = <<>>
      <4>1. Completes(buf') \in Seq(Cmd \cup {Garbage}) /\ inFlight \in Seq(Cmd \cup {Garbage})
        BY <1>3, CompletesType, DueTypes
      <4>2. Completes(buf') \o inFlight = <<>>
        BY <1>1, <3>4 DEF Due
      <4> QED
        BY <4>1, <4>2, ConcatSimplifications
    <3>6. buf' = <<>>
      BY <1>3, <1>5, <3>5, NothingComplete
    <3>7. IsPrefixOf(<<>>, <<>>)
      BY EmptySeq, PrefixSame
    <3>8. responses' = <<>> /\ Len(responses') = 0
      BY <3>1, EmptySeq DEF Return
    <3>9. ~torn'
      BY <1>1 DEF Clean
    <3>10. \A i \in 1..Len(responses') : responses'[i] = cmds'[i]
      BY <3>8
    <3> QED
      BY <1>1, <2>1, <2>2, <3>2, <3>4, <3>6, <3>7, <3>9, <3>10 DEF Clean
  <2> QED
    BY <2>3, <2>4
<1>7. CASE ~Head(buf).last
  <2>1. Completes(buf) = <<>> /\ buf' = <<>>
    BY <1>1, <1>2, <1>7, DueTypes, CompletesCut DEF Clean
  <2>2. Due' = Due
    BY <1>1, <2>1, CompletesNothing DEF Due
  <2>3. UNCHANGED <<call, cmds, sent, responses>>
    BY <1>7 DEF ParsePiece, Waits
  <2>4. Owed' = Owed
    BY <2>3 DEF Owed
  <2> QED
    BY <1>1, <2>1, <2>2, <2>3, <2>4, CompletesNothing DEF Clean
<1> QED
  BY <1>6, <1>7

LEMMA CleanNext == ASSUME TypeInv, CleanInv, [Next]_vars PROVE CleanInv'
<1> SUFFICES ASSUME clean', state' = "Connected" PROVE Clean'
  BY DEF CleanInv, NothingLeftBehind, InStep, Clean, Owed, Due
<1>c. ASSUME clean, state = "Connected" PROVE Clean
  BY <1>c, CleanIs
<1> USE DEF members, calling, socket, history
<1>1. ASSUME connect \/ UNCHANGED vars PROVE Clean'
  <2>1. UNCHANGED <<state, clean, buf, parser, cmds, sent, responses, sock, inFlight, torn>>
        /\ (call' = "read" <=> call = "read")
    BY <1>1 DEF connect, vars
  <2> QED
    BY <1>c, <2>1 DEF Clean, Due, Owed
<1>2. ASSUME ConnectEnds PROVE Clean'
  <2>1. /\ call = "connect" /\ call' = "none"
        /\ UNCHANGED <<buf, parser, cmds, sent, responses, inFlight, torn>>
    BY <1>2 DEF ConnectEnds
  <2>2. state # "Connected"
    BY <2>1 DEF TypeInv, LinkShape
  <2>3. parser = None /\ buf = <<>> /\ sock' = "connected"
    BY <1>2, <2>2 DEF ConnectEnds, Connected, NotConnected
  <2>4. inFlight = <<>> /\ ~torn /\ responses = <<>> /\ sent = 0 /\ Len(responses) = 0
    BY <2>1, <2>2, EmptySeq DEF TypeInv, LinkShape, CallShape
  <2>5. Due' = <<>>
    <3>1. <<>> \o <<>> = <<>>
      BY EmptySeq, ConcatEmptySeq
    <3> QED
      BY <2>1, <2>3, <2>4, <3>1, CompletesNothing DEF Due
  <2>6. Owed' = <<>>
    BY <2>1, <2>4, SubSeqEmpty DEF Owed
  <2>7. \A i \in 1..Len(responses') : responses'[i] = cmds'[i]
    BY <2>1, <2>4
  <2> QED
    BY <2>1, <2>3, <2>4, <2>5, <2>6, <2>7, CompletesNothing DEF Clean
<1>3. ASSUME disConnected PROVE Clean'
  BY <1>3 DEF disConnected
<1>4. ASSUME NEW n \in 1..MaxPipe, NEW fresh \in BOOLEAN, command(n, fresh) PROVE Clean'
  <2>1. /\ call = "none" /\ state = "Connected" /\ clean /\ call' = "write"
        /\ UNCHANGED <<buf, parser, sent, responses, sock, inFlight, torn>>
    BY <1>4 DEF command
  <2>2. Clean /\ Owed = <<>>
    BY <1>c, <2>1, NothingDue
  <2>3. responses = <<>> /\ sent = 0 /\ Len(responses) = 0
    BY <2>1, EmptySeq DEF TypeInv, CallShape
  <2>4. Owed' = <<>>
    BY <2>1, <2>3, SubSeqEmpty DEF Owed
  <2>5. \A i \in 1..Len(responses') : responses'[i] = cmds'[i]
    BY <2>1, <2>3
  <2> QED
    BY <2>1, <2>2, <2>4, <2>5 DEF Clean, Due
<1>5. ASSUME WriteSome PROVE Clean'
  <2>1. clean /\ state = "Connected"
    BY <1>5 DEF WriteSome, TypeInv, CallShape
  <2> QED
    BY <1>5, <1>c, <2>1, CleanWrite
<1>6. ASSUME WriteStops \/ ReadStops \/ MisreadPiece PROVE Clean'
  BY <1>6 DEF WriteStops, ReadStops, MisreadPiece
<1>7. ASSUME NEW k \in 0..Len(inFlight), NEW more \in BOOLEAN,
             k + (IF more THEN 1 ELSE 0) <= Len(inFlight), Receive(k, more)
      PROVE  Clean'
  <2>1. clean /\ state = "Connected"
    BY <1>7 DEF Receive
  <2> QED
    BY <1>7, <1>c, <2>1, CleanReceive
<1>8. ASSUME ParsePiece PROVE Clean'
  <2>1. clean /\ state = "Connected"
    BY <1>8 DEF ParsePiece
  <2> QED
    BY <1>8, <1>c, <2>1, CleanParse
<1>9. ASSUME Break PROVE Clean'
  <2>1. /\ sock = "connected" /\ sock' = "broken"
        /\ UNCHANGED <<members, calling, inFlight, torn, history>>
    BY <1>9 DEF Break
  <2>2. Clean /\ Due = Owed
    BY <1>c, <2>1 DEF Clean
  <2>3. IsPrefixOf(Due, Owed)
    BY <2>2, DueTypes, PrefixSame
  <2> QED
    BY <2>1, <2>2, <2>3 DEF Clean, Due, Owed
<1> QED
  BY <1>1, <1>2, <1>3, <1>4, <1>5, <1>6, <1>7, <1>8, <1>9 DEF Next, Application, Reading

LEMMA CleanInit == Init => CleanInv
BY DEF Init, CleanInv, NothingLeftBehind, InStep

Inv == TypeInv /\ Unanswered /\ CleanInv

LEMMA Invariant == Spec => []Inv
<1>1. Init => Inv
  BY TypeInit, UnansweredInit, CleanInit DEF Inv
<1>2. Inv /\ [Next]_vars => Inv'
  BY TypeNext, UnansweredNext, CleanNext DEF Inv
<1> QED
  BY <1>1, <1>2, PTL DEF Spec

\* Between calls of a client that is clean there is not a byte in buf and not a
\* reply on its way; during a call, exactly what the call has yet to read.
THEOREM NothingLeftBehindCorrect == Spec => []NothingLeftBehind
<1>1. Inv => NothingLeftBehind
  BY DEF Inv, CleanInv
<1> QED
  BY <1>1, Invariant, PTL

\* Of a clean call, each command is given its own reply.
LEMMA OwnReplyStep ==
    ASSUME Inv, ParsePiece, Answered(Head(buf).of), clean, NEW i \in 1..Len(cmds)
    PROVE  Append(responses, Head(buf).of)[i] = cmds[i]
<1>1. call = "read" /\ buf # <<>>
  BY DEF ParsePiece
<1>2. TypeInv /\ Clean
  BY <1>1, CleanIs DEF Inv, TypeInv, CallShape
<1>3. Head(buf).last
  <2>1. Len(cmds) # 0
    BY <1>2, DueTypes
  <2>2. cmds' # cmds
    BY <2>1, EmptySeq DEF Answered
  <2> QED
    BY <2>2 DEF ParsePiece, Waits
<1>4. Head(buf).of = cmds[Len(responses) + 1]
  BY <1>1, <1>2, <1>3, FirstDue
<1>5. Head(buf).of \in Values /\ responses \in Seq(Values) /\ Len(responses) + 1 = Len(cmds)
  <2>1. Head(buf) \in Piece
    BY <1>1, <1>2, HeadTailProperties DEF TypeInv, TypeOK
  <2>2. Head(buf).of \in Values
    BY <2>1, BoundsAssumption DEF Piece, Cmd, Garbage, Values, NoValue
  <2> QED
    BY <1>2, <2>2 DEF Answered, TypeInv, TypeOK
<1>6. \A j \in 1..Len(responses) : responses[j] = cmds[j]
  BY <1>2 DEF Clean
<1>7. /\ \A j \in 1..Len(responses) : Append(responses, Head(buf).of)[j] = responses[j]
      /\ Append(responses, Head(buf).of)[Len(responses) + 1] = Head(buf).of
  BY <1>5, AppendProperties
<1> QED
  BY <1>2, <1>4, <1>5, <1>6, <1>7, DueTypes

\* On a clean connection a caller is given the replies to its own commands.
THEOREM OwnRepliesCorrect == Spec => OwnReplies
<1>1. ASSUME Inv, [Next]_vars, clean, clean', NEW n \in Cmd, got'[n] # got[n]
      PROVE  got'[n] = n
  <2>1. ParsePiece /\ Answered(Head(buf).of)
    BY <1>1, CallSteps DEF Inv, Begins, GivesUp, GoesOn
  <2>2. PICK i \in 1..Len(cmds) : cmds[i] = n /\ got'[n] = Append(responses, Head(buf).of)[i]
    BY <1>1, <2>1 DEF Answered
  <2> QED
    BY <1>1, <2>1, <2>2, OwnReplyStep
<1>2. Inv /\ [Next]_vars
        => [clean /\ clean' => \A n \in Cmd : got'[n] # got[n] => got'[n] = n]_vars
  BY <1>1
<1> QED
  BY <1>2, Invariant, PTL DEF Spec, OwnReplies

(***************************************************************************)
(* The refinement                                                          *)
(***************************************************************************)
LEMMA ChannelInit == Init => Channel!Init
BY DEF Init, Channel!Init, Cmd, None

LEMMA ChannelNext == ASSUME Inv, [Next]_vars PROVE [Channel!Next]_(Channel!vars)
<1>t. /\ next \in 1..(MaxCmd + 1) /\ clean \in BOOLEAN /\ got \in [Cmd -> Values]
      /\ cmds \in Seq(Cmd) /\ Len(cmds) \in Nat /\ MaxCmd \in Nat
  BY LenProperties, BoundsAssumption DEF Inv, TypeInv, TypeOK
<1>c. clean' \in BOOLEAN
  BY TypeNext DEF Inv, TypeInv, TypeOK
<1>1. ASSUME NEW n \in 1..MaxCmd, Begins(n) PROVE [Channel!Next]_(Channel!vars)
  <2>1. next' = next + n /\ UNCHANGED <<got, clean>> /\ cmds = <<>> /\ cmds' = Collected(n)
    BY <1>1 DEF Begins
  <2>2. cmds' \in Seq(Nat)
    BY <1>t, <2>1 DEF Collected
  <2>3. cmds' = cmds \o [i \in 1..n |-> next + i - 1]
    BY <2>1, <2>2, ConcatEmptySeq DEF Collected
  <2>4. CASE clean
    <3>1. Channel!Issue(n)
      BY <2>1, <2>3, <2>4 DEF Channel!Issue
    <3> QED
      BY <3>1 DEF Channel!Next
  <2>5. CASE ~clean
    <3>1. next' >= next
      BY <1>t, <2>1
    <3>2. Channel!Unwarranted
      BY <2>1, <2>5, <3>1 DEF Channel!Unwarranted
    <3> QED
      BY <3>2 DEF Channel!Next
  <2> QED
    BY <2>4, <2>5
<1>2. ASSUME NEW v, Answered(v), ~clean' PROVE Channel!Unwarranted
  <2>1. ASSUME NEW n \in 1..MaxCmd, got'[n] # got[n] PROVE got[n] = 0 /\ n < next
    <3>1. \E i \in 1..Len(cmds) : cmds[i] = n
      BY <1>2, <2>1 DEF Answered, Cmd
    <3> QED
      BY <3>1 DEF Inv, Unanswered, None
  <2>2. next' >= next
    BY <1>2, <1>t DEF Answered
  <2> QED
    BY <1>2, <2>1, <2>2 DEF Channel!Unwarranted
<1>3. ASSUME ParsePiece, Answered(Head(buf).of), UNCHANGED clean, clean
      PROVE  \E n \in 1..Len(cmds) : Channel!Answer(n)
  <2>1. \A i \in 1..Len(cmds) : Append(responses, Head(buf).of)[i] = cmds[i]
    BY <1>3, OwnReplyStep
  <2>2. Len(cmds) \in 1..Len(cmds)
    <3>1. Len(cmds) # 0
      BY <1>3 DEF Inv, TypeInv, CallShape, ParsePiece, TypeOK
    <3> QED
      BY <1>t, <3>1
  <2>3. \A n \in Cmd : got'[n] = IF \E i \in 1..Len(cmds) : cmds[i] = n THEN n ELSE got[n]
    BY <1>3, <2>1 DEF Answered
  <2>4. got' = [c \in 1..MaxCmd |->
                  IF \E i \in 1..Len(cmds) : cmds[i] = c THEN c ELSE got[c]]
    BY <1>3, <2>3 DEF Answered, Cmd
  <2>5. cmds' = SubSeq(cmds, Len(cmds) + 1, Len(cmds))
    BY <1>3, <1>t, SubSeqEmpty DEF Answered
  <2>6. UNCHANGED next
    BY <1>3 DEF Answered
  <2>7. Channel!Answer(Len(cmds))
    BY <1>3, <2>4, <2>5, <2>6 DEF Channel!Answer
  <2> QED
    BY <2>2, <2>7
<1>4. ASSUME GivesUp PROVE [Channel!Next]_(Channel!vars)
  <2>1. cmds' = <<>> /\ UNCHANGED <<next, got>> /\ (cmds = <<>> \/ ~clean')
    BY <1>4 DEF GivesUp
  <2>2. next' >= next
    BY <1>t, <2>1
  <2>3. CASE ~(clean /\ clean')
    BY <2>1, <2>2, <2>3 DEF Channel!Next, Channel!Unwarranted
  <2>4. CASE clean /\ clean'
    BY <1>t, <1>c, <2>1, <2>4 DEF Channel!vars
  <2> QED
    BY <2>3, <2>4
<1>5. ASSUME GoesOn PROVE [Channel!Next]_(Channel!vars)
  <2>1. CASE clean' = clean
    BY <1>5, <2>1 DEF GoesOn, Channel!vars
  <2>2. CASE ~clean'
    <3>1. next' >= next
      BY <1>5, <1>t DEF GoesOn
    <3>2. Channel!Unwarranted
      BY <1>5, <2>2, <3>1 DEF GoesOn, Channel!Unwarranted
    <3> QED
      BY <3>2 DEF Channel!Next
  <2> QED
    BY <1>5, <2>1, <2>2 DEF GoesOn
<1>6. ASSUME ParsePiece, Answered(Head(buf).of), UNCHANGED clean, ~clean
      PROVE  Channel!Unwarranted
  BY <1>2, <1>6
<1> QED
  BY <1>1, <1>2, <1>3, <1>4, <1>5, <1>6, CallSteps DEF Inv, Channel!Next

\* Every behaviour of the synchronous client is one of CommandChannel: a call
\* answers all its commands at once, each with its own reply, from the
\* connect() of a clean connection until a call fails on it; and whatever fails,
\* no command is answered twice or before it was issued.
THEOREM ImplementsChannelCorrect == Spec => ImplementsChannel
<1>1. Inv /\ [Next]_vars => [Channel!Next]_(Channel!vars)
  BY ChannelNext
<1> QED
  BY <1>1, ChannelInit, Invariant, PTL DEF Spec, ImplementsChannel, Channel!Spec
=============================================================================
