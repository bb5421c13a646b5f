---------------------------- MODULE PubSubProofs ----------------------------
(***************************************************************************)
(* Proofs about PubSub.                                                    *)
(***************************************************************************)
EXTENDS PubSub, PieceLemmas, FiniteSetTheorems

Open == state \in {"Connected", "Subscribed"}

TypeInv == TypeOK /\ IsFiniteSet(msgHandlers) /\ (Open => connects # 0)
-----------------------------------------------------------------------------
(***************************************************************************)
(* Sequences                                                               *)
(***************************************************************************)

LEMMA TailIs ==
    ASSUME NEW S, NEW s \in Seq(S), s # <<>>
    PROVE  /\ Len(s) \in Nat \ {0} /\ Head(s) = s[1] /\ s[1] \in S
           /\ Tail(s) \in Seq(S) /\ Len(Tail(s)) = Len(s) - 1
           /\ \A i \in 1..(Len(s) - 1) : Tail(s)[i] = s[i + 1]
<1>1. Len(s) \in Nat \ {0} /\ Head(s) = s[1] /\ s[1] \in S
  BY HeadIsFirst
<1> QED
  BY <1>1, HeadTailProperties

LEMMA FunctionIsSeq ==
    ASSUME NEW S, NEW n \in Nat, NEW q \in [1..n -> S]
    PROVE  q \in Seq(S) /\ Len(q) = n
<1>1. q \in Seq(S)
  BY SeqDef
<1>2. Len(q) \in Nat /\ DOMAIN q = 1..Len(q) /\ DOMAIN q = 1..n
  BY <1>1, LenProperties
<1> QED
  BY <1>1, <1>2

LEMMA RangeIs ==
    ASSUME NEW S, NEW s \in Seq(S)
    PROVE  Range(s) = {s[i] : i \in 1..Len(s)} /\ Range(s) \subseteq S
<1>1. DOMAIN s = 1..Len(s) /\ \A i \in 1..Len(s) : s[i] \in S
  BY LenProperties, ElementOfSeq
<1> QED
  BY <1>1 DEF Range

LEMMA RangeAppend ==
    ASSUME NEW S, NEW s \in Seq(S), NEW x \in S
    PROVE  Range(Append(s, x)) = Range(s) \cup {x}
<1> DEFINE t == Append(s, x)
<1>1. /\ t \in Seq(S) /\ Len(t) = Len(s) + 1 /\ Len(s) \in Nat
      /\ \A i \in 1..Len(s) : t[i] = s[i]
      /\ t[Len(s) + 1] = x
  BY AppendProperties, LenProperties
<1>2. Range(t) = {t[i] : i \in 1..Len(t)} /\ Range(s) = {s[i] : i \in 1..Len(s)}
  BY <1>1, RangeIs
<1> HIDE DEF t
<1>3. 1..Len(t) = 1..Len(s) \cup {Len(s) + 1}
  BY <1>1
<1>4. Range(t) = Range(s) \cup {x}
  BY <1>1, <1>2, <1>3
<1> QED
  BY <1>4 DEF t

LEMMA RangeTail ==
    ASSUME NEW S, NEW s \in Seq(S), s # <<>>
    PROVE  Range(s) = {Head(s)} \cup Range(Tail(s))
<1> DEFINE t == Tail(s)
<1>1. /\ t \in Seq(S) /\ Len(t) = Len(s) - 1 /\ Len(s) \in Nat \ {0} /\ Head(s) = s[1]
      /\ \A i \in 1..(Len(s) - 1) : t[i] = s[i + 1]
  BY TailIs
<1>2. Range(t) = {t[i] : i \in 1..Len(t)} /\ Range(s) = {s[i] : i \in 1..Len(s)}
  BY <1>1, RangeIs
<1> HIDE DEF t
<1>3. \A i \in 1..Len(s) : i = 1 \/ i - 1 \in 1..(Len(s) - 1)
  BY <1>1
<1>4. \A i \in 1..(Len(s) - 1) : i + 1 \in 1..Len(s)
  BY <1>1
<1>5. ASSUME NEW i \in 1..Len(s), i # 1 PROVE i - 1 \in 1..(Len(s) - 1) /\ t[i - 1] = s[i]
  BY <1>1, <1>3, <1>5
<1>6. Range(s) \subseteq {s[1]} \cup Range(t)
  BY <1>1, <1>2, <1>5
<1>7. {s[1]} \cup Range(t) \subseteq Range(s)
  BY <1>1, <1>2, <1>4
<1>8. Range(s) = {Head(s)} \cup Range(t)
  BY <1>1, <1>6, <1>7
<1> QED
  BY <1>8 DEF t

Increasing(s) == \A i, j \in 1..Len(s) : i < j => s[i] < s[j]

LEMMA IncreasingAppend ==
    ASSUME NEW S, S \subseteq Nat, NEW s \in Seq(S), NEW x \in S,
           Increasing(s), Before(Range(s), {x})
    PROVE  Increasing(Append(s, x))
<1> DEFINE t == Append(s, x)
<1>1. /\ t \in Seq(S) /\ Len(t) = Len(s) + 1 /\ Len(s) \in Nat
      /\ \A i \in 1..Len(s) : t[i] = s[i]
      /\ t[Len(s) + 1] = x
  BY AppendProperties, LenProperties
<1>2. \A i \in 1..Len(s) : s[i] < x
  BY RangeIs DEF Before
<1> HIDE DEF t
<1>3. Increasing(t)
  BY <1>1, <1>2 DEF Increasing
<1> QED
  BY <1>3 DEF t

LEMMA IncreasingTail ==
    ASSUME NEW S, S \subseteq Nat, NEW s \in Seq(S), s # <<>>, Increasing(s)
    PROVE  /\ Increasing(Tail(s)) /\ Before({Head(s)}, Range(Tail(s)))
           /\ Range(Tail(s)) = Range(s) \ {Head(s)}
<1> DEFINE t == Tail(s)
<1>1. /\ t \in Seq(S) /\ Len(t) = Len(s) - 1 /\ Len(s) \in Nat \ {0} /\ Head(s) = s[1]
      /\ s[1] \in S /\ \A i \in 1..(Len(s) - 1) : t[i] = s[i + 1]
  BY TailIs
<1>2. Range(t) = {t[i] : i \in 1..Len(t)} /\ Range(s) = {Head(s)} \cup Range(t)
  BY <1>1, RangeIs, RangeTail
<1> HIDE DEF t
<1>3. Increasing(t)
  BY <1>1 DEF Increasing
<1>4. \A i \in 1..(Len(s) - 1) : s[1] < t[i]
  BY <1>1 DEF Increasing
<1>5. Before({Head(s)}, Range(t)) /\ Head(s) \notin Range(t)
  <2>1. \A x \in Range(t) : s[1] < x
    BY <1>1, <1>2, <1>4
  <2>2. s[1] \in Nat
    BY <1>1
  <2> QED
    BY <1>1, <2>1, <2>2 DEF Before
<1>6. Range(t) = Range(s) \ {Head(s)}
  BY <1>2, <1>5
<1> QED
  BY <1>3, <1>5, <1>6 DEF t

-----------------------------------------------------------------------------
(***************************************************************************)
(* Types                                                                   *)
(***************************************************************************)

\* What the values in the two queues are.
LEMMA Shapes ==
    ASSUME TypeOK
    PROVE  /\ Len(calls) \in Nat /\ \A n \in 1..Len(calls) : calls[n] \in CallInfo
           /\ \A i \in 1..Len(strandQ) :
                 \/ \E n \in 1..Len(calls) : strandQ[i] = Send(n)
                 \/ \E n \in Regular \cup Single, m \in 1..published : strandQ[i] = Deliver(n, m)
           /\ \A i \in 1..Len(toClient) :
                 \/ \E n \in 1..Len(calls) : toClient[i] = Reply(n)
                 \/ \E kind \in Kind, name \in Names, m \in 1..published :
                       toClient[i] = Message(kind, name, m)
<1>1. Len(calls) \in Nat /\ \A n \in 1..Len(calls) : calls[n] \in CallInfo
  BY ElementOfSeq, LenProperties DEF TypeOK
<1>2. \A i \in 1..Len(strandQ) : strandQ[i] \in Posting
  BY ElementOfSeq DEF TypeOK
<1>3. \A i \in 1..Len(toClient) : toClient[i] \in Served
  BY ElementOfSeq DEF TypeOK
<1> QED
  BY <1>1, <1>2, <1>3 DEF Posting, Served

\* More calls: what was of its kind before still is.
LEMMA Grows ==
    ASSUME TypeOK, NEW info \in CallInfo, calls' = Append(calls, info)
    PROVE  /\ Len(calls') = Len(calls) + 1 /\ calls' \in Seq(CallInfo)
           /\ \A n \in 1..Len(calls) : calls'[n] = calls[n] /\ Reply(n)' = Reply(n)
           /\ calls'[Len(calls) + 1] = info
           /\ 1..Len(calls) \subseteq 1..Len(calls')
           /\ Regular' = IF info.verb = "subscribe" /\ ~info.once
                         THEN Regular \cup {Len(calls) + 1} ELSE Regular
           /\ Single' = IF info.verb = "subscribe" /\ info.once
                        THEN Single \cup {Len(calls) + 1} ELSE Single
<1>1. /\ Len(calls') = Len(calls) + 1 /\ calls' \in Seq(CallInfo) /\ Len(calls) \in Nat
      /\ \A n \in 1..Len(calls) : calls'[n] = calls[n]
      /\ calls'[Len(calls) + 1] = info
  BY AppendProperties, LenProperties DEF TypeOK
<1>2. \A n \in 1..Len(calls) : Reply(n)' = Reply(n)
  BY <1>1 DEF Reply
<1>3. 1..Len(calls') = 1..Len(calls) \cup {Len(calls) + 1}
  BY <1>1
<1>4. Len(calls) + 1 \notin 1..Len(calls)
  BY <1>1
<1>5. Regular' = IF info.verb = "subscribe" /\ ~info.once
                 THEN Regular \cup {Len(calls) + 1} ELSE Regular
  BY <1>1, <1>3 DEF Regular
<1>6. Single' = IF info.verb = "subscribe" /\ info.once
                THEN Single \cup {Len(calls) + 1} ELSE Single
  BY <1>1, <1>3 DEF Single
<1> QED
  BY <1>1, <1>2, <1>3, <1>5, <1>6

LEMMA Counted ==
    ASSUME TypeOK
    PROVE  IsFiniteSet(Regular) /\ subscribeSeq \in Nat
<1>1. Regular \subseteq 1..Len(calls) /\ IsFiniteSet(1..Len(calls))
  BY Shapes, FS_Interval DEF Regular
<1> QED
  BY <1>1, FS_Subset, FS_CardinalityType DEF TypeOK

LEMMA TypeInit == Init => TypeInv
<1> SUFFICES ASSUME Init PROVE TypeInv
  OBVIOUS
<1>1. Regular = {} /\ Single = {} /\ Len(calls) = 0
  BY EmptySeq DEF Init, Regular, Single
<1>2. Cardinality({}) = 0
  BY FS_EmptySet
<1>3. /\ calls \in Seq(CallInfo) /\ handlers \in Seq(1..Len(calls))
      /\ strandQ \in Seq(Posting) /\ toServer \in Seq(1..Len(calls))
      /\ toClient \in Seq(Served)
  BY EmptySeq DEF Init
<1>4. heard \in [Call -> Seq(1..published)]
  BY EmptySeq DEF Init
<1>5. /\ answered \in [Call -> 0..Len(calls)] /\ gone \subseteq Regular
      /\ due \in [Call -> SUBSET (1..published)]
      /\ published \in 0..MaxMsgs /\ connects \in 0..MaxConnects
  BY <1>1, BoundsAssumption DEF Init
<1>6. /\ msgHandlers \subseteq [id: 0..(subscribeSeq - 1), call: Regular, name: Names]
      /\ singleShotMsgHandlers \subseteq [call: Single, name: Names]
      /\ subscribeSeq = Cardinality(Regular)
      /\ link \in BOOLEAN /\ reading \in BOOLEAN /\ mixed \in BOOLEAN
      /\ subs \subseteq Kind \X Names
      /\ state = "Unconnected" /\ IsFiniteSet(msgHandlers)
  BY <1>1, <1>2, FS_EmptySet DEF Init
<1> QED
  BY <1>3, <1>4, <1>5, <1>6 DEF TypeInv, TypeOK, Open

\* A call that sends something.
LEMMA Issued ==
    ASSUME TypeInv, Open, NEW verb \in {"subscribe", "unsubscribe", "plain"},
           NEW kind \in Kind, NEW name \in Names, NEW once \in BOOLEAN,
           Issue(verb, kind, name, once), published' = published
    PROVE  /\ Len(calls) + 1 \in Call /\ Len(calls) \in Nat
           /\ [verb |-> verb, kind |-> kind, name |-> name, once |-> once,
               conn |-> connects] \in CallInfo
           /\ calls' = Append(calls, [verb |-> verb, kind |-> kind, name |-> name,
                                      once |-> once, conn |-> connects])
           /\ Len(calls') = Len(calls) + 1 /\ calls' \in Seq(CallInfo)
           /\ \A n \in 1..Len(calls) : calls'[n] = calls[n] /\ Reply(n)' = Reply(n)
           /\ calls'[Len(calls) + 1] = [verb |-> verb, kind |-> kind, name |-> name,
                                        once |-> once, conn |-> connects]
           /\ Regular' = IF verb = "subscribe" /\ ~once
                         THEN Regular \cup {Len(calls) + 1} ELSE Regular
           /\ Single' = IF verb = "subscribe" /\ once
                        THEN Single \cup {Len(calls) + 1} ELSE Single
           /\ strandQ' \in Seq(Posting')
           /\ handlers \in Seq(1..Len(calls')) /\ toServer \in Seq(1..Len(calls'))
           /\ toClient \in Seq(Served') /\ answered \in [Call -> 0..Len(calls')]
<1> DEFINE info == [verb |-> verb, kind |-> kind, name |-> name, once |-> once,
                    conn |-> connects]
<1>1. calls' = Append(calls, info) /\ Len(calls) < MaxCalls /\ Len(calls) \in Nat
      /\ strandQ' = Append(strandQ, Send(Len(calls) + 1))
  BY Shapes DEF Issue, TypeInv
<1>2. info \in CallInfo
  BY BoundsAssumption DEF TypeInv, TypeOK, CallInfo
<1>3. Len(calls) + 1 \in Call
  BY <1>1, BoundsAssumption DEF Call
<1>4. info.verb = verb /\ info.once = once
  OBVIOUS
<1> HIDE DEF info
<1>5. /\ Len(calls') = Len(calls) + 1 /\ calls' \in Seq(CallInfo)
      /\ \A n \in 1..Len(calls) : calls'[n] = calls[n] /\ Reply(n)' = Reply(n)
      /\ calls'[Len(calls) + 1] = info
      /\ 1..Len(calls) \subseteq 1..Len(calls')
      /\ Regular' = IF info.verb = "subscribe" /\ ~info.once
                    THEN Regular \cup {Len(calls) + 1} ELSE Regular
      /\ Single' = IF info.verb = "subscribe" /\ info.once
                   THEN Single \cup {Len(calls) + 1} ELSE Single
  BY <1>1, <1>2, Grows DEF TypeInv
<1>6. Posting \subseteq Posting' /\ Send(Len(calls) + 1) \in Posting'
  <2>1. {Send(n) : n \in 1..Len(calls)} \subseteq {Send(n) : n \in 1..Len(calls')}
    BY <1>5
  <2>2. Regular \cup Single \subseteq Regular' \cup Single'
    BY <1>5
  <2>3. {Deliver(n, m) : n \in Regular \cup Single, m \in 1..published}
          \subseteq {Deliver(n, m) : n \in Regular' \cup Single', m \in 1..published}
    BY <2>2
  <2>4. Len(calls) + 1 \in 1..Len(calls')
    BY <1>1, <1>5
  <2> QED
    BY <2>1, <2>3, <2>4 DEF Posting
<1>7. strandQ' \in Seq(Posting')
  BY <1>1, <1>6, SeqMonotonic, AppendProperties DEF TypeInv, TypeOK
<1>8. Served \subseteq Served'
  <2>1. {Reply(n) : n \in 1..Len(calls)} \subseteq {Reply(n)' : n \in 1..Len(calls')}
    BY <1>5
  <2> QED
    BY <2>1 DEF Served, Message
<1>9. /\ handlers \in Seq(1..Len(calls')) /\ toServer \in Seq(1..Len(calls'))
      /\ toClient \in Seq(Served')
  BY <1>5, <1>8, SeqMonotonic DEF TypeInv, TypeOK
<1>10. answered \in [Call -> 0..Len(calls')]
  BY <1>1, <1>5 DEF TypeInv, TypeOK
<1> QED
  BY <1>1, <1>2, <1>3, <1>4, <1>5, <1>7, <1>9, <1>10 DEF info

LEMMA TypeConnect == ASSUME TypeInv, connect PROVE TypeInv'
<1>1. connects' \in 0..MaxConnects /\ connects' # 0
  BY BoundsAssumption DEF connect, TypeInv, TypeOK
<1>2. Regular' = Regular /\ Single' = Single /\ Posting' = Posting /\ Served' = Served
  BY DEF connect, Regular, Single, Posting, Served, Reply
<1>3. state' = "Connected" /\ link' \in BOOLEAN /\ reading' \in BOOLEAN /\ mixed' \in BOOLEAN
  BY DEF connect
<1> QED
  BY <1>1, <1>2, <1>3 DEF connect, TypeInv, TypeOK

LEMMA TypeClose == ASSUME TypeInv, close PROVE TypeInv'
<1>1. Regular' = Regular /\ Single' = Single /\ Posting' = Posting /\ Served' = Served
  BY DEF close, Regular, Single, Posting, Served, Reply, history
<1>2. handlers' \in Seq(1..Len(calls)) /\ toServer' \in Seq(1..Len(calls))
      /\ toClient' \in Seq(Served)
  BY EmptySeq DEF close, ClearHandlers
<1>3. /\ state' = "Closed" /\ link' \in BOOLEAN /\ reading' \in BOOLEAN
      /\ subs' \subseteq Kind \X Names /\ msgHandlers' = {}
      /\ IsFiniteSet(msgHandlers')
  BY FS_EmptySet DEF close, ClearHandlers
<1>4. UNCHANGED <<singleShotMsgHandlers, subscribeSeq, strandQ, calls, answered, heard,
                  due, published, gone, mixed, connects>>
  BY DEF close, history
<1> QED
  BY <1>1, <1>2, <1>3, <1>4 DEF TypeInv, TypeOK, Open

LEMMA TypeCommand == ASSUME TypeInv, command PROVE TypeInv'
<1>1. /\ Open /\ Issue("plain", "channel", Star, FALSE)
      /\ "channel" \in Kind /\ Star \in Names
      /\ UNCHANGED <<state, handlers, msgHandlers, singleShotMsgHandlers, subscribeSeq, link,
                     reading, toServer, toClient, subs, answered, heard, due, published,
                     gone, mixed, connects>>
  BY DEF command, Open, Kind, Names, client, network, history
<1>2. /\ calls' \in Seq(CallInfo) /\ Regular' = Regular /\ Single' = Single
      /\ strandQ' \in Seq(Posting')
      /\ handlers \in Seq(1..Len(calls')) /\ toServer \in Seq(1..Len(calls'))
      /\ toClient \in Seq(Served') /\ answered \in [Call -> 0..Len(calls')]
  BY <1>1, Issued
<1> QED
  BY <1>1, <1>2 DEF TypeInv, TypeOK, Open

LEMMA TypeSubscribing ==
    ASSUME TypeInv, NEW kind \in Kind, NEW name \in NamesOf(kind), Subscribing(kind, name)
    PROVE  /\ Open /\ Open' /\ state' = "Subscribed" /\ mixed' \in BOOLEAN /\ name \in Names
           /\ due' \in [Call -> SUBSET (1..published)]
           /\ UNCHANGED <<handlers, link, reading, toServer, toClient, subs, answered, heard,
                          published, gone, connects>>
<1>1. InTransit(kind, name) \subseteq 1..published
  <2> SUFFICES ASSUME NEW j \in 1..Len(toClient), toClient[j].what = "message"
               PROVE  toClient[j].msg \in 1..published
    BY DEF InTransit
  <2>1. CASE \E n \in 1..Len(calls) : toClient[j] = Reply(n)
    <3>1. PICK n \in 1..Len(calls) : toClient[j] = Reply(n)
      BY <2>1
    <3>2. calls[n].verb = "message" /\ calls[n] \in CallInfo
      BY <3>1, Shapes DEF Reply, TypeInv
    <3> QED
      BY <3>2 DEF CallInfo
  <2>2. CASE \E k \in Kind, x \in Names, m \in 1..published : toClient[j] = Message(k, x, m)
    BY <2>2 DEF Message
  <2> QED
    BY <2>1, <2>2, Shapes DEF TypeInv
<1>2. due' \in [Call -> SUBSET (1..published)]
  BY <1>1 DEF Subscribing, TypeInv, TypeOK
<1>3. mixed' \in BOOLEAN
  BY DEF Subscribing
<1> QED
  BY <1>2, <1>3 DEF Subscribing, Open, network, NamesOf, Names

LEMMA TypeSubscribe ==
    ASSUME TypeInv, NEW kind \in Kind, NEW name \in NamesOf(kind), subscribe(kind, name)
    PROVE  TypeInv'
<1>1. /\ Open /\ Open' /\ state' = "Subscribed" /\ mixed' \in BOOLEAN /\ name \in Names
      /\ due' \in [Call -> SUBSET (1..published)]
      /\ UNCHANGED <<handlers, link, reading, toServer, toClient, subs, answered, heard,
                     published, gone, connects>>
  BY TypeSubscribing DEF subscribe
<1>2. /\ Issue("subscribe", kind, name, FALSE) /\ UNCHANGED singleShotMsgHandlers
      /\ subscribeSeq' = subscribeSeq + 1
      /\ msgHandlers' = msgHandlers \cup
            {[id |-> subscribeSeq, call |-> Len(calls) + 1, name |-> name]}
  BY DEF subscribe, NextId
<1>3. /\ calls' \in Seq(CallInfo) /\ Regular' = Regular \cup {Len(calls) + 1}
      /\ Single' = Single /\ Len(calls) \in Nat
      /\ strandQ' \in Seq(Posting')
      /\ handlers \in Seq(1..Len(calls')) /\ toServer \in Seq(1..Len(calls'))
      /\ toClient \in Seq(Served') /\ answered \in [Call -> 0..Len(calls')]
  BY <1>1, <1>2, Issued
<1>4. subscribeSeq \in Nat /\ IsFiniteSet(Regular)
  BY Counted DEF TypeInv
<1>5. subscribeSeq' = Cardinality(Regular')
  <2>1. Len(calls) + 1 \notin Regular
    BY <1>3 DEF Regular
  <2> QED
    BY <1>2, <1>3, <1>4, <2>1, FS_AddElement DEF TypeInv, TypeOK
<1>6. IsFiniteSet(msgHandlers')
  BY <1>2, FS_AddElement DEF TypeInv
<1>7. msgHandlers' \subseteq [id: 0..(subscribeSeq' - 1), call: Regular', name: Names]
  BY <1>1, <1>2, <1>3, <1>4 DEF TypeInv, TypeOK
<1> QED
  BY <1>1, <1>2, <1>3, <1>5, <1>6, <1>7 DEF TypeInv, TypeOK

LEMMA TypeSingleShotSubscribe ==
    ASSUME TypeInv, NEW kind \in Kind, NEW name \in NamesOf(kind),
           singleShotSubscribe(kind, name)
    PROVE  TypeInv'
<1>1. /\ Open /\ Open' /\ state' = "Subscribed" /\ mixed' \in BOOLEAN /\ name \in Names
      /\ due' \in [Call -> SUBSET (1..published)]
      /\ UNCHANGED <<handlers, link, reading, toServer, toClient, subs, answered, heard,
                     published, gone, connects>>
  BY TypeSubscribing DEF singleShotSubscribe
<1>2. /\ Issue("subscribe", kind, name, TRUE) /\ UNCHANGED <<msgHandlers, subscribeSeq>>
      /\ singleShotMsgHandlers' = singleShotMsgHandlers \cup
            {[call |-> Len(calls) + 1, name |-> name]}
  BY DEF singleShotSubscribe
<1>3. /\ calls' \in Seq(CallInfo) /\ Regular' = Regular
      /\ Single' = Single \cup {Len(calls) + 1}
      /\ strandQ' \in Seq(Posting')
      /\ handlers \in Seq(1..Len(calls')) /\ toServer \in Seq(1..Len(calls'))
      /\ toClient \in Seq(Served') /\ answered \in [Call -> 0..Len(calls')]
  BY <1>1, <1>2, Issued
<1>4. singleShotMsgHandlers' \subseteq [call: Single', name: Names]
  BY <1>1, <1>2, <1>3 DEF TypeInv, TypeOK
<1> QED
  BY <1>1, <1>2, <1>3, <1>4 DEF TypeInv, TypeOK

LEMMA TypeUnsubscribe ==
    ASSUME TypeInv, NEW k \in 1..Len(calls), unsubscribe(k)
    PROVE  TypeInv'
<1>1. calls[k] \in CallInfo /\ calls[k].kind \in Kind /\ calls[k].name \in Names
  BY Shapes DEF TypeInv, CallInfo
<1>2. /\ Open /\ k \in Regular /\ Issue("unsubscribe", calls[k].kind, calls[k].name, FALSE)
      /\ msgHandlers' \subseteq msgHandlers /\ gone' = gone \cup {k}
      /\ UNCHANGED <<state, handlers, singleShotMsgHandlers, subscribeSeq, link, reading,
                     toServer, toClient, subs, answered, heard, due, published, mixed,
                     connects>>
  BY DEF unsubscribe, Open, Regular, network
<1>3. /\ calls' \in Seq(CallInfo) /\ Regular' = Regular /\ Single' = Single
      /\ strandQ' \in Seq(Posting')
      /\ handlers \in Seq(1..Len(calls')) /\ toServer \in Seq(1..Len(calls'))
      /\ toClient \in Seq(Served') /\ answered \in [Call -> 0..Len(calls')]
  BY <1>1, <1>2, Issued
<1>4. IsFiniteSet(msgHandlers')
  BY <1>2, FS_Subset DEF TypeInv
<1> QED
  BY <1>2, <1>3, <1>4 DEF TypeInv, TypeOK, Open

LEMMA TypeDoAsyncCommand == ASSUME TypeInv, doAsyncCommand PROVE TypeInv'
<1>1. Regular' = Regular /\ Single' = Single /\ Posting' = Posting /\ Served' = Served
  BY DEF doAsyncCommand, Regular, Single, Posting, Served, Reply, history
<1>2. strandQ # <<>> /\ strandQ \in Seq(Posting) /\ Head(strandQ).op = "send"
      /\ strandQ' = Tail(strandQ)
  BY DEF doAsyncCommand, TypeInv, TypeOK
<1>3. strandQ' \in Seq(Posting) /\ Head(strandQ) \in Posting
  BY <1>2, TailIs
<1>4. Head(strandQ).call \in 1..Len(calls)
  BY <1>2, <1>3 DEF Posting, Send, Deliver
<1>5. handlers' \in Seq(1..Len(calls)) /\ toServer' \in Seq(1..Len(calls))
  BY <1>4, AppendProperties DEF doAsyncCommand, TypeInv, TypeOK
<1>6. UNCHANGED <<state, msgHandlers, singleShotMsgHandlers, subscribeSeq, link, reading,
                  toClient, subs, calls, answered, heard, due, published, gone, mixed,
                  connects>>
  BY DEF doAsyncCommand, history
<1> QED
  BY <1>1, <1>3, <1>5, <1>6 DEF TypeInv, TypeOK, Open

LEMMA TypeCallMessageHandler == ASSUME TypeInv, CallMessageHandler PROVE TypeInv'
<1>1. Regular' = Regular /\ Single' = Single /\ Posting' = Posting /\ Served' = Served
  BY DEF CallMessageHandler, Regular, Single, Posting, Served, Reply, history
<1>2. strandQ # <<>> /\ strandQ \in Seq(Posting) /\ Head(strandQ).op = "deliver"
      /\ strandQ' = Tail(strandQ)
  BY DEF CallMessageHandler, TypeInv, TypeOK
<1>3. strandQ' \in Seq(Posting) /\ Head(strandQ) \in Posting
  BY <1>2, TailIs
<1>4. Head(strandQ).msg \in 1..published
  BY <1>2, <1>3 DEF Posting, Send, Deliver
<1>5. heard' \in [Call -> Seq(1..published)]
  <2>1. \A n \in Call : Append(heard[n], Head(strandQ).msg) \in Seq(1..published)
    BY <1>4, AppendProperties DEF TypeInv, TypeOK
  <2> QED
    BY <2>1 DEF CallMessageHandler, TypeInv, TypeOK
<1>6. UNCHANGED <<state, handlers, msgHandlers, singleShotMsgHandlers, subscribeSeq, link,
                  reading, toServer, toClient, subs, calls, answered, due, published, gone,
                  mixed, connects>>
  BY DEF CallMessageHandler, client, network
<1> QED
  BY <1>1, <1>3, <1>5, <1>6 DEF TypeInv, TypeOK, Open

\* What a message adds to the strand.
LEMMA PostsIs ==
    ASSUME TypeInv, NEW m \in 1..published,
           NEW hs, hs \subseteq msgHandlers, NEW regular \in InOrder(hs),
           NEW first \in Seq(Posting)
    PROVE  /\ Len(regular) \in Nat /\ DOMAIN regular = 1..Len(regular)
           /\ \A i \in 1..Len(regular) : regular[i] \in hs
           /\ hs = {regular[i] : i \in 1..Len(regular)}
           /\ Posts(first, regular, m) \in Seq(Posting)
           /\ Len(Posts(first, regular, m)) = Len(first) + Len(regular)
           /\ \A i \in 1..Len(first) : Posts(first, regular, m)[i] = first[i]
           /\ \A i \in 1..Len(regular) :
                 Posts(first, regular, m)[Len(first) + i] = Deliver(regular[i].call, m)
<1>1. IsFiniteSet(hs) /\ Cardinality(hs) \in Nat
  BY FS_Subset, FS_CardinalityType DEF TypeInv
<1>2. regular \in [1..Cardinality(hs) -> hs] /\ Range(regular) = hs
  BY DEF InOrder
<1>3. regular \in Seq(hs) /\ Len(regular) = Cardinality(hs)
  BY <1>1, <1>2, FunctionIsSeq
<1>4. \A i \in 1..Len(regular) : regular[i].call \in Regular
  BY <1>1, <1>2, <1>3 DEF TypeInv, TypeOK
<1> DEFINE posts == [i \in DOMAIN regular |-> Deliver(regular[i].call, m)]
<1>5. \A i \in 1..Len(regular) : Deliver(regular[i].call, m) \in Posting
  BY <1>4 DEF Posting
<1>6. posts \in Seq(Posting) /\ Len(posts) = Len(regular)
  BY <1>1, <1>2, <1>3, <1>5, FunctionIsSeq
<1>7. \A i \in 1..Len(regular) : posts[i] = Deliver(regular[i].call, m)
  BY <1>1, <1>2, <1>3
<1> HIDE DEF posts
<1>8. /\ first \o posts \in Seq(Posting)
      /\ Len(first \o posts) = Len(first) + Len(posts)
      /\ \A i \in 1..Len(first) + Len(posts) :
            (first \o posts)[i] = IF i <= Len(first) THEN first[i] ELSE posts[i - Len(first)]
  BY <1>6, ConcatProperties
<1>9. Len(first) \in Nat /\ Len(regular) \in Nat
  BY <1>1, <1>3, LenProperties
<1>10. /\ \A i \in 1..Len(first) : (first \o posts)[i] = first[i]
       /\ \A i \in 1..Len(regular) : (first \o posts)[Len(first) + i] = posts[i]
  BY <1>6, <1>8, <1>9
<1>11. hs = {regular[i] : i \in 1..Len(regular)}
  BY <1>1, <1>2, <1>3 DEF Range
<1>12. Posts(first, regular, m) = first \o posts
  BY DEF Posts, posts
<1> QED
  BY <1>1, <1>2, <1>3, <1>6, <1>7, <1>8, <1>9, <1>10, <1>11, <1>12

\* The next value that is parsed.
LEMMA NextValue ==
    ASSUME TypeInv, toClient # <<>>
    PROVE  LET v == Head(toClient)
           IN  /\ v = toClient[1]
               /\ \/ /\ v.what = "message" /\ v.kind \in Kind /\ v.name \in Names
                     /\ v.msg \in 1..published /\ v.call = 0
                  \/ /\ v.what \in {"subscribe", "unsubscribe", "plain"}
                     /\ v.call \in 1..Len(calls) /\ v.what = calls[v.call].verb
               /\ Len(toClient) \in Nat \ {0} /\ Tail(toClient) \in Seq(Served)
               /\ Len(Tail(toClient)) = Len(toClient) - 1
               /\ \A i \in 1..(Len(toClient) - 1) : Tail(toClient)[i] = toClient[i + 1]
<1> DEFINE v == Head(toClient)
<1>1. toClient \in Seq(Served)
  BY DEF TypeInv, TypeOK
<1>2. /\ v = toClient[1] /\ 1 \in 1..Len(toClient)
      /\ Len(toClient) \in Nat \ {0} /\ Tail(toClient) \in Seq(Served)
      /\ Len(Tail(toClient)) = Len(toClient) - 1
      /\ \A i \in 1..(Len(toClient) - 1) : Tail(toClient)[i] = toClient[i + 1]
  BY <1>1, TailIs
<1> HIDE DEF v
<1>3. CASE \E n \in 1..Len(calls) : v = Reply(n)
  <2>1. PICK n \in 1..Len(calls) : v = Reply(n)
    BY <1>3
  <2>2. calls[n].verb \in {"subscribe", "unsubscribe", "plain"}
    BY <2>1, Shapes DEF TypeInv, CallInfo
  <2>3. v.what = calls[n].verb /\ v.call = n
    BY <2>1 DEF Reply
  <2> QED
    BY <1>2, <2>2, <2>3 DEF v
<1>4. CASE \E k \in Kind, x \in Names, m \in 1..published : v = Message(k, x, m)
  <2>1. PICK k \in Kind, x \in Names, m \in 1..published : v = Message(k, x, m)
    BY <1>4
  <2>2. v.what = "message" /\ v.kind = k /\ v.name = x /\ v.msg = m /\ v.call = 0
    BY <2>1 DEF Message
  <2> QED
    BY <1>2, <2>2 DEF v
<1> QED
  BY <1>2, <1>3, <1>4, Shapes DEF TypeInv

\* posts is what message v adds to the strand; it is for call n; once at most.
AllOf(posts, v)     == \A i \in 1..Len(posts) : posts[i].op = "deliver" /\ posts[i].msg = v.msg
Given(posts, n)     == \E i \in 1..Len(posts) : posts[i].call = n
GivenOnce(posts, n) == \A i, j \in 1..Len(posts) : posts[i].call = n /\ posts[j].call = n => i = j

OneEach == \A g, h \in msgHandlers : g.call = h.call => g = h

\* What one message adds to the strand: one call of a single-shot handler of its
\* name, if there is one, and one call of each other handler of the name.
LEMMA GivenOut ==
    ASSUME TypeInv, NEW v, v.name \in Names, v.msg \in 1..published, ProcessMessage(v)
    PROVE  \E posts \in Seq(Posting) :
               /\ strandQ' = strandQ \o posts
               /\ AllOf(posts, v)
               /\ \A n \in Regular : Given(posts, n)
                                    <=> \E h \in msgHandlers : h.name = v.name /\ h.call = n
               /\ OneEach => \A n \in Regular : GivenOnce(posts, n)
               /\ \/ /\ UNCHANGED singleShotMsgHandlers
                     /\ \A i \in 1..Len(posts) : posts[i].call \in Regular
                  \/ \E s \in singleShotMsgHandlers :
                        /\ singleShotMsgHandlers' = singleShotMsgHandlers \ {s}
                        /\ 1 \in 1..Len(posts) /\ posts[1].call = s.call
                        /\ \A i \in 1..Len(posts) : i # 1 => posts[i].call \in Regular
<1> DEFINE hs == {h \in msgHandlers : h.name = v.name}
           m == v.msg
<1>1. PICK regular \in InOrder(hs) :
         \/ /\ strandQ' = strandQ \o Posts(<<>>, regular, m)
            /\ UNCHANGED singleShotMsgHandlers
         \/ \E s \in {t \in singleShotMsgHandlers : t.name = v.name} :
               /\ strandQ' = strandQ \o Posts(<<Deliver(s.call, m)>>, regular, m)
               /\ singleShotMsgHandlers' = Erased(s)
  BY DEF ProcessMessage
<1>2. /\ Len(regular) \in Nat /\ DOMAIN regular = 1..Len(regular)
      /\ \A i \in 1..Len(regular) : regular[i] \in hs
      /\ hs = {regular[i] : i \in 1..Len(regular)}
      /\ \A first \in Seq(Posting) :
            /\ Posts(first, regular, m) \in Seq(Posting)
            /\ Len(Posts(first, regular, m)) = Len(first) + Len(regular)
            /\ \A i \in 1..Len(first) : Posts(first, regular, m)[i] = first[i]
            /\ \A i \in 1..Len(regular) :
                  Posts(first, regular, m)[Len(first) + i] = Deliver(regular[i].call, m)
  <2> HIDE DEF hs, m
  <2>1. <<>> \in Seq(Posting)
    BY EmptySeq
  <2>2. hs \subseteq msgHandlers /\ m \in 1..published
    BY DEF hs, m
  <2>3. ASSUME NEW first \in Seq(Posting)
        PROVE  /\ Len(regular) \in Nat /\ DOMAIN regular = 1..Len(regular)
               /\ \A i \in 1..Len(regular) : regular[i] \in hs
               /\ hs = {regular[i] : i \in 1..Len(regular)}
               /\ Posts(first, regular, m) \in Seq(Posting)
               /\ Len(Posts(first, regular, m)) = Len(first) + Len(regular)
               /\ \A i \in 1..Len(first) : Posts(first, regular, m)[i] = first[i]
               /\ \A i \in 1..Len(regular) :
                     Posts(first, regular, m)[Len(first) + i] = Deliver(regular[i].call, m)
    BY <2>2, PostsIs
  <2> QED
    BY <2>1, <2>3
<1>3. /\ hs \subseteq msgHandlers
      /\ \A h \in hs : h.call \in Regular /\ h.id \in Int /\ h.name = v.name
  BY DEF TypeInv, TypeOK
<1>4. \A i, j \in 1..Len(regular) : regular[i] = regular[j] => i = j
  <2>1. \A i, j \in 1..Len(regular) : i < j => regular[i].id < regular[j].id
    BY <1>2 DEF InOrder
  <2>2. \A i \in 1..Len(regular) : regular[i].id \in Int /\ i \in Int
    BY <1>2, <1>3
  <2> SUFFICES ASSUME NEW i \in 1..Len(regular), NEW j \in 1..Len(regular),
                      regular[i] = regular[j]
               PROVE  i = j
    OBVIOUS
  <2>3. ~(i < j) /\ ~(j < i)
    BY <2>1, <2>2
  <2> QED
    BY <2>2, <2>3
<1>5. \A n, k : Deliver(n, k).op = "deliver" /\ Deliver(n, k).msg = k /\ Deliver(n, k).call = n
  BY DEF Deliver
<1>6. \A n \in Regular : n \notin Single
  BY DEF Regular, Single
<1>7. \A n : (\E h \in msgHandlers : h.name = v.name /\ h.call = n)
             <=> \E i \in 1..Len(regular) : regular[i].call = n
  BY <1>2
<1>8. OneEach => \A i, j \in 1..Len(regular) : regular[i].call = regular[j].call => i = j
  BY <1>2, <1>3, <1>4 DEF OneEach
<1> HIDE DEF hs, m
<1>9. CASE /\ strandQ' = strandQ \o Posts(<<>>, regular, m)
           /\ UNCHANGED singleShotMsgHandlers
  <2> DEFINE posts == Posts(<<>>, regular, m)
  <2>1. /\ posts \in Seq(Posting) /\ Len(posts) = Len(regular)
        /\ \A i \in 1..Len(regular) : posts[i] = Deliver(regular[i].call, m)
    <3>1. <<>> \in Seq(Posting) /\ Len(<<>>) = 0
      BY EmptySeq
    <3>2. \A i \in 1..Len(regular) : 0 + i = i
      BY <1>2
    <3>3. /\ posts \in Seq(Posting) /\ Len(posts) = 0 + Len(regular)
          /\ \A i \in 1..Len(regular) : posts[0 + i] = Deliver(regular[i].call, m)
      BY <1>2, <3>1
    <3> HIDE DEF posts
    <3> QED
      BY <1>2, <3>2, <3>3
  <2> HIDE DEF posts
  <2>2. \A i \in 1..Len(posts) : /\ posts[i].op = "deliver" /\ posts[i].msg = m
                                 /\ posts[i].call = regular[i].call /\ posts[i].call \in Regular
    <3>1. \A i \in 1..Len(regular) : regular[i].call \in Regular
      BY <1>2, <1>3
    <3> QED
      BY <1>5, <2>1, <3>1
  <2>3. OneEach => \A n \in Regular : GivenOnce(posts, n)
    BY <1>8, <2>1, <2>2 DEF GivenOnce
  <2>4. strandQ' = strandQ \o posts
    BY <1>9 DEF posts
  <2>5. \A n \in Regular : Given(posts, n)
                         <=> \E h \in msgHandlers : h.name = v.name /\ h.call = n
    BY <1>7, <2>1, <2>2 DEF Given
  <2>6. AllOf(posts, v)
    BY <2>2 DEF m, AllOf
  <2>7. UNCHANGED singleShotMsgHandlers /\ \A i \in 1..Len(posts) : posts[i].call \in Regular
    BY <1>9, <2>2
  <2> QED
    BY <2>1, <2>3, <2>4, <2>5, <2>6, <2>7
<1>10. CASE \E s \in {t \in singleShotMsgHandlers : t.name = v.name} :
              /\ strandQ' = strandQ \o Posts(<<Deliver(s.call, m)>>, regular, m)
              /\ singleShotMsgHandlers' = Erased(s)
  <2>1. PICK s \in singleShotMsgHandlers :
           /\ strandQ' = strandQ \o Posts(<<Deliver(s.call, m)>>, regular, m)
           /\ singleShotMsgHandlers' = singleShotMsgHandlers \ {s}
    BY <1>10 DEF Erased
  <2>2. s.call \in Single
    BY DEF TypeInv, TypeOK
  <2> DEFINE first == <<Deliver(s.call, m)>>
             posts == Posts(first, regular, m)
  <2>3. first \in Seq(Posting) /\ Len(first) = 1 /\ first[1] = Deliver(s.call, m)
    <3>1. Deliver(s.call, m) \in Posting
      BY <2>2 DEF Posting, m
    <3> QED
      BY <3>1
  <2> HIDE DEF first
  <2>4. /\ posts \in Seq(Posting) /\ Len(posts) = 1 + Len(regular)
        /\ posts[1] = Deliver(s.call, m)
        /\ \A i \in 1..Len(regular) : posts[1 + i] = Deliver(regular[i].call, m)
    <3>1. /\ posts \in Seq(Posting) /\ Len(posts) = Len(first) + Len(regular)
          /\ \A i \in 1..Len(first) : posts[i] = first[i]
          /\ \A i \in 1..Len(regular) : posts[Len(first) + i] = Deliver(regular[i].call, m)
      BY <1>2, <2>3
    <3> HIDE DEF posts
    <3> QED
      BY <2>3, <3>1
  <2>5. strandQ' = strandQ \o posts
    BY <2>1 DEF first
  <2> HIDE DEF posts
  <2>6. 1 \in 1..Len(posts) /\ \A i \in 1..Len(posts) : i = 1 \/ i - 1 \in 1..Len(regular)
    BY <1>2, <2>4
  <2>7. \A i \in 1..Len(posts) :
           i # 1 => /\ posts[i] = Deliver(regular[i - 1].call, m)
                    /\ posts[i].call = regular[i - 1].call /\ posts[i].call \in Regular
    <3> SUFFICES ASSUME NEW i \in 1..Len(posts), i # 1
                 PROVE  /\ posts[i] = Deliver(regular[i - 1].call, m)
                        /\ posts[i].call = regular[i - 1].call /\ posts[i].call \in Regular
      OBVIOUS
    <3>1. i - 1 \in 1..Len(regular) /\ 1 + (i - 1) = i
      BY <1>2, <2>6
    <3>2. posts[i] = Deliver(regular[i - 1].call, m)
      BY <2>4, <3>1
    <3>3. regular[i - 1].call \in Regular
      BY <1>2, <1>3, <3>1
    <3> QED
      BY <1>5, <3>2, <3>3
  <2>8. posts[1].call = s.call /\ \A i \in 1..Len(posts) : posts[i].op = "deliver" /\ posts[i].msg = m
    BY <1>5, <2>4, <2>7
  <2>9. ASSUME NEW n \in Regular
        PROVE  (\E i \in 1..Len(posts) : posts[i].call = n)
               <=> \E h \in msgHandlers : h.name = v.name /\ h.call = n
    <3>1. \A i \in 1..Len(posts) : posts[i].call = n => i # 1
      BY <1>6, <2>2, <2>8
    <3>2. \A i \in 1..Len(regular) : 1 + i \in 1..Len(posts) /\ 1 + i # 1 /\ (1 + i) - 1 = i
      BY <1>2, <2>4
    <3>3. ASSUME NEW i \in 1..Len(posts), posts[i].call = n
          PROVE  \E k \in 1..Len(regular) : regular[k].call = n
      <4>1. i # 1 /\ i - 1 \in 1..Len(regular) /\ posts[i].call = regular[i - 1].call
        BY <2>6, <2>7, <3>1, <3>3
      <4> QED
        BY <3>3, <4>1
    <3>4. ASSUME NEW k \in 1..Len(regular), regular[k].call = n
          PROVE  \E i \in 1..Len(posts) : posts[i].call = n
      <4>1. posts[1 + k].call = regular[k].call
        BY <2>7, <3>2
      <4> QED
        BY <3>2, <3>4, <4>1
    <3> QED
      BY <1>7, <3>3, <3>4
  <2>10. ASSUME OneEach, NEW n \in Regular, NEW i \in 1..Len(posts), NEW j \in 1..Len(posts),
                posts[i].call = n, posts[j].call = n
         PROVE  i = j
    <3>1. i # 1 /\ j # 1
      BY <1>6, <2>2, <2>8, <2>10
    <3>2. /\ i - 1 \in 1..Len(regular) /\ j - 1 \in 1..Len(regular)
          /\ regular[i - 1].call = n /\ regular[j - 1].call = n
      BY <2>6, <2>7, <2>10, <3>1
    <3>3. i - 1 = j - 1
      BY <1>8, <2>10, <3>2
    <3> QED
      BY <1>2, <2>4, <3>3
  <2>11. \A n \in Regular : Given(posts, n)
                          <=> \E h \in msgHandlers : h.name = v.name /\ h.call = n
    BY <2>9 DEF Given
  <2>12. AllOf(posts, v)
    BY <2>8 DEF m, AllOf
  <2>13. /\ singleShotMsgHandlers' = singleShotMsgHandlers \ {s}
         /\ 1 \in 1..Len(posts) /\ posts[1].call = s.call
         /\ \A i \in 1..Len(posts) : i # 1 => posts[i].call \in Regular
    BY <2>1, <2>6, <2>7, <2>8
  <2>14. OneEach => \A n \in Regular : GivenOnce(posts, n)
    BY <2>10 DEF GivenOnce
  <2>15. posts \in Seq(Posting)
    BY <2>4
  <2> QED
    BY <2>5, <2>11, <2>12, <2>13, <2>14, <2>15
<1> QED
  BY <1>1, <1>9, <1>10

LEMMA TypeAsyncRead == ASSUME TypeInv, asyncRead PROVE TypeInv'
<1> DEFINE v == Head(toClient)
<1>1. /\ doProcessMessage(v) /\ toClient # <<>>
      /\ UNCHANGED <<state, msgHandlers, subscribeSeq, link, toServer, subs, calls, heard, due,
                     published, gone, mixed, connects>>
  BY DEF asyncRead
<1>2. Regular' = Regular /\ Single' = Single /\ Posting' = Posting /\ Served' = Served
  BY <1>1 DEF Regular, Single, Posting, Served, Reply
<1>3. /\ Tail(toClient) \in Seq(Served) /\ v.call \in 0..Len(calls)
      /\ v.what = "message" => v.name \in Names /\ v.msg \in 1..published
  BY <1>1, NextValue, Shapes DEF TypeInv
<1> HIDE DEF v
<1>4. ASSUME /\ strandQ' \in Seq(Posting) /\ toClient' \in Seq(Served) /\ reading' \in BOOLEAN
             /\ handlers' \in Seq(1..Len(calls)) /\ answered' \in [Call -> 0..Len(calls)]
             /\ singleShotMsgHandlers' \subseteq singleShotMsgHandlers
      PROVE  TypeInv'
  BY <1>1, <1>2, <1>4 DEF TypeInv, TypeOK, Open
<1>5. CASE v.what = "message" /\ ProcessMessage(v)
  <2>1. PICK posts \in Seq(Posting) : strandQ' = strandQ \o posts
    BY <1>3, <1>5, GivenOut
  <2>2. strandQ' \in Seq(Posting)
    BY <2>1, ConcatProperties DEF TypeInv, TypeOK
  <2>3. singleShotMsgHandlers' \subseteq singleShotMsgHandlers
    BY <1>5 DEF ProcessMessage, Erased
  <2> QED
    BY <1>3, <1>4, <1>5, <2>2, <2>3 DEF ProcessMessage, TypeInv, TypeOK
<1>6. CASE CallReplyHandler(v)
  <2>1. handlers # <<>> /\ Head(handlers) \in 1..Len(calls) /\ Tail(handlers) \in Seq(1..Len(calls))
    BY <1>6, HeadTailProperties DEF CallReplyHandler, TypeInv, TypeOK
  <2>2. answered' \in [Call -> 0..Len(calls)]
    BY <1>3, <1>6 DEF CallReplyHandler, TypeInv, TypeOK
  <2> QED
    BY <1>3, <1>4, <1>6, <2>1, <2>2 DEF CallReplyHandler, TypeInv, TypeOK
<1>7. CASE CallErrorHandler
  <2>1. toClient' \in Seq(Served) /\ reading' \in BOOLEAN
    BY <1>3, <1>7, EmptySeq DEF CallErrorHandler, TypeInv, TypeOK, v
  <2> QED
    BY <1>4, <1>7, <2>1 DEF CallErrorHandler, TypeInv, TypeOK
<1> QED
  BY <1>1, <1>5, <1>6, <1>7 DEF doProcessMessage

LEMMA TypeReadFails == ASSUME TypeInv, ReadFails PROVE TypeInv'
<1>1. /\ reading' \in BOOLEAN
      /\ UNCHANGED <<state, handlers, msgHandlers, singleShotMsgHandlers, subscribeSeq, strandQ,
                     link, toServer, toClient, subs, calls, answered, heard, due, published,
                     gone, mixed, connects>>
  BY DEF ReadFails, client, history
<1>2. Regular' = Regular /\ Single' = Single /\ Posting' = Posting /\ Served' = Served
  BY <1>1 DEF Regular, Single, Posting, Served, Reply
<1> QED
  BY <1>1, <1>2 DEF TypeInv, TypeOK, Open

\* The command the server executes next.
LEMMA NextCommand ==
    ASSUME TypeInv, toServer # <<>>
    PROVE  /\ Head(toServer) \in 1..Len(calls) /\ calls[Head(toServer)] \in CallInfo
           /\ Tail(toServer) \in Seq(1..Len(calls))
           /\ Append(toClient, Reply(Head(toServer))) \in Seq(Served)
           /\ Len(Append(toClient, Reply(Head(toServer)))) = Len(toClient) + 1
           /\ Len(toClient) \in Nat
           /\ \A i \in 1..Len(toClient) :
                 Append(toClient, Reply(Head(toServer)))[i] = toClient[i]
           /\ Append(toClient, Reply(Head(toServer)))[Len(toClient) + 1] = Reply(Head(toServer))
<1>1. Head(toServer) \in 1..Len(calls) /\ Tail(toServer) \in Seq(1..Len(calls))
  BY HeadTailProperties DEF TypeInv, TypeOK
<1>2. calls[Head(toServer)] \in CallInfo
  BY <1>1, Shapes DEF TypeInv
<1>3. Reply(Head(toServer)) \in Served
  BY <1>1 DEF Served
<1>4. toClient \in Seq(Served)
  BY DEF TypeInv, TypeOK
<1> QED
  BY <1>1, <1>2, <1>3, <1>4, AppendProperties, LenProperties

LEMMA TypeExecute == ASSUME TypeInv, Execute PROVE TypeInv'
<1> DEFINE n == Head(toServer)
           key == <<calls[n].kind, calls[n].name>>
<1>1. /\ toServer # <<>> /\ toServer' = Tail(toServer)
      /\ toClient' = Append(toClient, Reply(n))
      /\ subs' \subseteq subs \cup {key}
      /\ UNCHANGED <<state, handlers, msgHandlers, singleShotMsgHandlers, subscribeSeq, strandQ,
                     link, reading, calls, answered, heard, due, published, gone, mixed,
                     connects>>
  BY DEF Execute, client, history
<1>2. Regular' = Regular /\ Single' = Single /\ Posting' = Posting /\ Served' = Served
  BY <1>1 DEF Regular, Single, Posting, Served, Reply
<1>3. /\ toServer' \in Seq(1..Len(calls)) /\ toClient' \in Seq(Served)
      /\ key \in Kind \X Names
  BY <1>1, NextCommand DEF CallInfo
<1> QED
  BY <1>1, <1>2, <1>3 DEF TypeInv, TypeOK, Open

LEMMA TypeBreak == ASSUME TypeInv, Break PROVE TypeInv'
<1>1. /\ link' \in BOOLEAN /\ toServer' \in Seq(1..Len(calls)) /\ subs' = {}
      /\ toClient' \in Seq(Served)
      /\ UNCHANGED <<state, handlers, msgHandlers, singleShotMsgHandlers, subscribeSeq, strandQ,
                     reading, calls, answered, heard, due, published, gone, mixed, connects>>
  BY EmptySeq DEF Break, client, history, TypeInv, TypeOK
<1>2. Regular' = Regular /\ Single' = Single /\ Posting' = Posting /\ Served' = Served
  BY <1>1 DEF Regular, Single, Posting, Served, Reply
<1> QED
  BY <1>1, <1>2 DEF TypeInv, TypeOK, Open

LEMMA MaybeOneMore ==
    ASSUME NEW S, NEW s \in Seq(S), NEW x \in S, NEW b \in BOOLEAN,
           NEW t, t = s \o (IF b THEN <<x>> ELSE <<>>)
    PROVE  /\ t \in Seq(S) /\ Len(s) \in Nat
           /\ \A i \in 1..Len(s) : t[i] = s[i]
           /\ b => Len(t) = Len(s) + 1 /\ t[Len(s) + 1] = x
           /\ ~b => Len(t) = Len(s)
<1>1. CASE b
  <2>1. t = Append(s, x)
    BY <1>1, AppendIsConcat
  <2> QED
    BY <1>1, <2>1, AppendProperties, LenProperties
<1>2. CASE ~b
  <2>1. t = s
    BY <1>2, ConcatEmptySeq
  <2> QED
    BY <1>2, <2>1, LenProperties
<1> QED
  BY <1>1, <1>2

\* Does the server send what is published on channel c for this subscription?
SentFor(c, kind, name) ==
    <<kind, name>> \in subs /\ (name = c \/ <<kind, name>> = <<"pattern", Star>>)

\* What is published is sent once for each subscription it meets.
LEMMA Published ==
    ASSUME TypeInv, NEW c \in Channels, Publish(c)
    PROVE  /\ published \in Nat /\ published' = published + 1 /\ published' \in 0..MaxMsgs
           /\ due' = [n \in Call |-> IF n \in Live /\ SentFor(c, calls[n].kind, calls[n].name)
                                     THEN due[n] \cup {published + 1} ELSE due[n]]
           /\ toClient' \in Seq(Served') /\ Len(toClient) \in Nat /\ Len(toClient') \in Nat
           /\ Len(toClient) <= Len(toClient')
           /\ \A i \in 1..Len(toClient) : toClient'[i] = toClient[i]
           /\ \A i \in (Len(toClient) + 1)..Len(toClient') :
                 \E kind \in Kind, name \in Names :
                    SentFor(c, kind, name) /\ toClient'[i] = Message(kind, name, published + 1)
           /\ \A i, j \in (Len(toClient) + 1)..Len(toClient') :
                 toClient'[i] = toClient'[j] => i = j
           /\ \A kind \in Kind, name \in Names :
                 SentFor(c, kind, name) =>
                    \E i \in (Len(toClient) + 1)..Len(toClient') :
                       toClient'[i] = Message(kind, name, published + 1)
<1> DEFINE m  == published + 1
           b1 == SentFor(c, "channel", c)
           b2 == SentFor(c, "pattern", c)
           b3 == SentFor(c, "pattern", Star)
           x1 == Message("channel", c, m)
           x2 == Message("pattern", c, m)
           x3 == Message("pattern", Star, m)
           s1 == toClient \o (IF b1 THEN <<x1>> ELSE <<>>)
           s2 == s1 \o (IF b2 THEN <<x2>> ELSE <<>>)
           s3 == s2 \o (IF b3 THEN <<x3>> ELSE <<>>)
<1>1. /\ published \in Nat /\ published' = m /\ m \in 0..MaxMsgs
      /\ due' = [n \in Call |-> IF n \in Live /\ SentFor(c, calls[n].kind, calls[n].name)
                                THEN due[n] \cup {m} ELSE due[n]]
  BY BoundsAssumption DEF Publish, TypeInv, TypeOK, SentFor
<1>2. toClient' = s3
  BY DEF Publish, SentFor
<1>3. /\ UNCHANGED calls /\ Regular' = Regular /\ Single' = Single
      /\ \A n \in 1..Len(calls) : Reply(n)' = Reply(n)
  BY DEF Publish, Regular, Single, Reply
<1>4. c \in Names /\ Star \in Names /\ c # Star /\ Kind = {"channel", "pattern"}
  BY NamesAssumption DEF Names, Kind
<1>5. Served \subseteq Served' /\ x1 \in Served' /\ x2 \in Served' /\ x3 \in Served'
  <2>1. m \in 1..published' /\ 1..published \subseteq 1..published'
    BY <1>1
  <2>2. Served' = {Reply(n) : n \in 1..Len(calls)}
            \cup {Message(kind, name, k) : kind \in Kind, name \in Names, k \in 1..published'}
    BY <1>3 DEF Served
  <2>3. {Message(kind, name, k) : kind \in Kind, name \in Names, k \in 1..published}
          \subseteq {Message(kind, name, k) : kind \in Kind, name \in Names, k \in 1..published'}
    BY <2>1
  <2> QED
    BY <1>4, <2>1, <2>2, <2>3 DEF Served
<1>6. toClient \in Seq(Served')
  BY <1>5, SeqMonotonic DEF TypeInv, TypeOK
<1>7. b1 \in BOOLEAN /\ b2 \in BOOLEAN /\ b3 \in BOOLEAN
  BY DEF SentFor
<1>8. x1 # x2 /\ x2 # x3 /\ x1 # x3
  <2>1. x1.kind = "channel" /\ x2.kind = "pattern" /\ x3.kind = "pattern"
        /\ x2.name = c /\ x3.name = Star
    BY DEF Message
  <2> QED
    BY <1>4, <2>1
<1>9. \A kind \in Kind, name \in Names :
        SentFor(c, kind, name) =>
            \/ kind = "channel" /\ name = c /\ b1
            \/ kind = "pattern" /\ name = c /\ b2
            \/ kind = "pattern" /\ name = Star /\ b3
  BY <1>4 DEF SentFor
<1> HIDE DEF m, b1, b2, b3, x1, x2, x3
<1> DEFINE Extends(s, b, x, t) ==
             /\ \A i \in 1..Len(s) : t[i] = s[i]
             /\ b => Len(t) = Len(s) + 1 /\ t[Len(s) + 1] = x
             /\ ~b => Len(t) = Len(s)
<1>10. s1 \in Seq(Served') /\ Len(toClient) \in Nat /\ Extends(toClient, b1, x1, s1)
  BY <1>5, <1>6, <1>7, MaybeOneMore
<1>t1. s1 \in Seq(Served') /\ x2 \in Served' /\ b2 \in BOOLEAN
  BY <1>5, <1>7, <1>10
<1> HIDE DEF s1
<1>11. s2 \in Seq(Served') /\ Len(s1) \in Nat /\ Extends(s1, b2, x2, s2)
  BY <1>t1, MaybeOneMore
<1>t2. s2 \in Seq(Served') /\ x3 \in Served' /\ b3 \in BOOLEAN
  BY <1>5, <1>7, <1>11
<1> HIDE DEF s2
<1>12. s3 \in Seq(Served') /\ Len(s2) \in Nat /\ Extends(s2, b3, x3, s3)
  BY <1>t2, MaybeOneMore
<1> HIDE DEF s3
<1> DEFINE p0 == Len(toClient)
           p1 == p0 + 1
           p2 == Len(s1) + 1
           p3 == Len(s2) + 1
<1>l. /\ p0 \in Nat /\ Len(s1) \in Nat /\ Len(s2) \in Nat /\ Len(s3) \in Nat
      /\ p0 <= Len(s1) /\ Len(s1) <= Len(s2) /\ Len(s2) <= Len(s3)
  BY <1>10, <1>11, <1>12, LenProperties
<1>13. /\ Len(toClient) <= Len(s3) /\ Len(s3) \in Nat
       /\ \A i \in 1..Len(toClient) : s3[i] = toClient[i]
  BY <1>l, <1>10, <1>11, <1>12
<1>14. /\ b1 => p1 \in (Len(toClient) + 1)..Len(s3) /\ s3[p1] = x1
       /\ b2 => p2 \in (Len(toClient) + 1)..Len(s3) /\ s3[p2] = x2
       /\ b3 => p3 \in (Len(toClient) + 1)..Len(s3) /\ s3[p3] = x3
  BY <1>l, <1>10, <1>11, <1>12
<1>15. \A i \in (Len(toClient) + 1)..Len(s3) : (i = p1 /\ b1) \/ (i = p2 /\ b2) \/ (i = p3 /\ b3)
  <2> SUFFICES ASSUME NEW i \in (p0 + 1)..Len(s3)
               PROVE  (i = p1 /\ b1) \/ (i = p2 /\ b2) \/ (i = p3 /\ b3)
    OBVIOUS
  <2>1. CASE i <= Len(s1)
    BY <1>l, <1>10, <2>1
  <2>2. CASE i > Len(s1) /\ i <= Len(s2)
    BY <1>l, <1>11, <2>2
  <2>3. CASE i > Len(s2)
    BY <1>l, <1>12, <2>3
  <2> QED
    BY <1>l, <2>1, <2>2, <2>3
<1>16. \A i, j \in (Len(toClient) + 1)..Len(s3) : s3[i] = s3[j] => i = j
  BY <1>8, <1>14, <1>15
<1>17. \A i \in (Len(toClient) + 1)..Len(s3) :
         \E kind \in Kind, name \in Names :
            SentFor(c, kind, name) /\ s3[i] = Message(kind, name, published + 1)
  BY <1>4, <1>14, <1>15 DEF b1, b2, b3, x1, x2, x3, m
<1>18. \A kind \in Kind, name \in Names :
         SentFor(c, kind, name) =>
            \E i \in (Len(toClient) + 1)..Len(s3) : s3[i] = Message(kind, name, published + 1)
  BY <1>9, <1>14 DEF x1, x2, x3, m
<1> QED
  BY <1>1, <1>2, <1>10, <1>12, <1>13, <1>16, <1>17, <1>18 DEF m

LEMMA TypePublish == ASSUME TypeInv, NEW c \in Channels, Publish(c) PROVE TypeInv'
<1>1. /\ published \in Nat /\ published' = published + 1 /\ published' \in 0..MaxMsgs
      /\ toClient' \in Seq(Served')
      /\ due' = [n \in Call |-> IF n \in Live /\ SentFor(c, calls[n].kind, calls[n].name)
                                THEN due[n] \cup {published + 1} ELSE due[n]]
  BY Published
<1>2. UNCHANGED <<state, handlers, msgHandlers, singleShotMsgHandlers, subscribeSeq, strandQ,
                  link, reading, toServer, subs, calls, answered, heard, gone, mixed, connects>>
  BY DEF Publish, client
<1>3. Regular' = Regular /\ Single' = Single
  BY <1>2 DEF Regular, Single
<1>4. 1..published \subseteq 1..published' /\ published + 1 \in 1..published'
  BY <1>1
<1>5. Posting \subseteq Posting'
  BY <1>2, <1>3, <1>4 DEF Posting
<1>6. strandQ' \in Seq(Posting')
  BY <1>2, <1>5, SeqMonotonic DEF TypeInv, TypeOK
<1>7. heard' \in [Call -> Seq(1..published')]
  BY <1>2, <1>4, SeqMonotonic DEF TypeInv, TypeOK
<1>8. due' \in [Call -> SUBSET (1..published')]
  BY <1>1, <1>4 DEF TypeInv, TypeOK
<1> QED
  BY <1>1, <1>2, <1>3, <1>6, <1>7, <1>8 DEF TypeInv, TypeOK, Open

LEMMA TypeNext == ASSUME TypeInv, [Next]_vars PROVE TypeInv'
<1>1. CASE Application
  BY <1>1, TypeConnect, TypeClose, TypeCommand, TypeSubscribe, TypeSingleShotSubscribe,
     TypeUnsubscribe DEF Application
<1>2. CASE Service
  BY <1>2, TypeDoAsyncCommand, TypeCallMessageHandler, TypeAsyncRead, TypeReadFails DEF Service
<1>3. CASE Network
  BY <1>3, TypeExecute, TypePublish, TypeBreak DEF Network
<1>4. CASE UNCHANGED vars
  <2>1. UNCHANGED <<state, handlers, msgHandlers, singleShotMsgHandlers, subscribeSeq, strandQ,
                    link, reading, toServer, toClient, subs, calls, answered, heard, due,
                    published, gone, mixed, connects>>
    BY <1>4 DEF vars, client, network, history
  <2>2. Regular' = Regular /\ Single' = Single /\ Posting' = Posting /\ Served' = Served
    BY <2>1 DEF Regular, Single, Posting, Served, Reply
  <2> QED
    BY <2>1, <2>2 DEF TypeInv, TypeOK, Open
<1> QED
  BY <1>1, <1>2, <1>3, <1>4 DEF Next

LEMMA TypeAlways == Spec => []TypeInv
BY TypeInit, TypeNext, PTL DEF Spec

\* The variables hold values of their kinds; the maps hold handlers of calls made,
\* and the ids given out are below the next one.
THEOREM TypeCorrect == Spec => []TypeOK
<1>1. TypeInv => TypeOK
  BY DEF TypeInv
<1> QED
  BY <1>1, TypeAlways, PTL
-----------------------------------------------------------------------------
(***************************************************************************)
(* What the steps do to the strand                                         *)
(***************************************************************************)

\* The commands that wait in the strand.
Sends == {strandQ[i].call : i \in {j \in 1..Len(strandQ) : strandQ[j].op = "send"}}

SendsInOrder ==
    \A i, j \in 1..Len(strandQ) :
        i < j /\ strandQ[i].op = "send" /\ strandQ[j].op = "send" =>
            strandQ[i].call < strandQ[j].call

DeliveriesInOrder(n) ==
    \A i, j \in Deliveries(n) : i < j => strandQ[i].msg < strandQ[j].msg

LEMMA StrandTypes ==
    ASSUME TypeInv
    PROVE  /\ Len(strandQ) \in Nat /\ Len(calls) \in Nat /\ Sends \subseteq 1..Len(calls)
           /\ \A i \in 1..Len(strandQ) :
                 \/ strandQ[i].op = "send" /\ strandQ[i].call \in 1..Len(calls)
                 \/ /\ strandQ[i].op = "deliver" /\ strandQ[i].call \in Regular \cup Single
                    /\ strandQ[i].msg \in 1..published
           /\ \A n : Posted(n) \subseteq 1..published
           /\ \A n : n \notin Regular \cup Single => Deliveries(n) = {}
<1>1. \A i \in 1..Len(strandQ) :
         \/ strandQ[i].op = "send" /\ strandQ[i].call \in 1..Len(calls)
         \/ /\ strandQ[i].op = "deliver" /\ strandQ[i].call \in Regular \cup Single
            /\ strandQ[i].msg \in 1..published
  <2> SUFFICES ASSUME NEW i \in 1..Len(strandQ)
               PROVE  \/ strandQ[i].op = "send" /\ strandQ[i].call \in 1..Len(calls)
                      \/ /\ strandQ[i].op = "deliver" /\ strandQ[i].call \in Regular \cup Single
                         /\ strandQ[i].msg \in 1..published
    OBVIOUS
  <2>1. CASE \E n \in 1..Len(calls) : strandQ[i] = Send(n)
    BY <2>1 DEF Send
  <2>2. CASE \E n \in Regular \cup Single, m \in 1..published : strandQ[i] = Deliver(n, m)
    BY <2>2 DEF Deliver
  <2> QED
    BY <2>1, <2>2, Shapes DEF TypeInv
<1>2. Len(strandQ) \in Nat /\ Len(calls) \in Nat
  BY LenProperties DEF TypeInv, TypeOK
<1>3. Sends \subseteq 1..Len(calls)
  BY <1>1 DEF Sends
<1>4. \A n : \A i \in Deliveries(n) :
         strandQ[i].call = n /\ n \in Regular \cup Single /\ strandQ[i].msg \in 1..published
  BY <1>1 DEF Deliveries
<1>5. \A n : Posted(n) \subseteq 1..published
  BY <1>4 DEF Posted
<1> QED
  BY <1>1, <1>2, <1>3, <1>4, <1>5

\* doAsyncCommand is posted.
LEMMA StrandIssue ==
    ASSUME TypeInv, NEW verb, NEW kind, NEW name, NEW once, Issue(verb, kind, name, once)
    PROVE  /\ Sends' = Sends \cup {Len(calls) + 1} /\ (SendsInOrder => SendsInOrder')
           /\ \A n : /\ Deliveries(n)' = Deliveries(n) /\ Posted(n)' = Posted(n)
                     /\ DeliveriesInOrder(n) => DeliveriesInOrder(n)'
<1> DEFINE c == Len(calls) + 1
           q == strandQ'
<1>1. strandQ \in Seq(Posting \cup {Send(c)}) /\ Send(c) \in Posting \cup {Send(c)}
  BY SeqMonotonic DEF TypeInv, TypeOK
<1>2. /\ Len(q) = Len(strandQ) + 1 /\ Len(strandQ) \in Nat
      /\ \A i \in 1..Len(strandQ) : q[i] = strandQ[i]
      /\ q[Len(strandQ) + 1] = Send(c)
  BY <1>1, AppendProperties, LenProperties DEF Issue
<1>3. Send(c).op = "send" /\ Send(c).call = c
  BY DEF Send
<1>4. 1..Len(q) = 1..Len(strandQ) \cup {Len(strandQ) + 1} /\ Len(strandQ) + 1 \in 1..Len(q)
  BY <1>2
<1> HIDE DEF c, q
<1>5. Sends' = Sends \cup {c}
  <2>1. Sends' = {q[i].call : i \in {j \in 1..Len(q) : q[j].op = "send"}}
    BY DEF Sends, q
  <2>2. Sends \subseteq Sends' /\ c \in Sends'
    <3>1. \A i \in 1..Len(strandQ) : i \in 1..Len(q) /\ q[i] = strandQ[i]
      BY <1>2, <1>4
    <3>2. \A i \in 1..Len(strandQ) : strandQ[i].op = "send" => strandQ[i].call \in Sends'
      BY <2>1, <3>1
    <3>3. c \in Sends'
      BY <1>2, <1>3, <1>4, <2>1
    <3> QED
      BY <3>2, <3>3 DEF Sends
  <2>3. \A i \in 1..Len(q) : q[i].op = "send" => q[i].call = c \/ q[i].call \in Sends
    BY <1>2, <1>3, <1>4 DEF Sends
  <2> QED
    BY <2>1, <2>2, <2>3
<1>6. ASSUME SendsInOrder PROVE SendsInOrder'
  <2>1. \A i \in 1..Len(strandQ) : strandQ[i].op = "send" => strandQ[i].call < c
    BY StrandTypes DEF c
  <2>2. \A i, j \in 1..Len(q) :
           i < j /\ q[i].op = "send" /\ q[j].op = "send" => q[i].call < q[j].call
    BY <1>2, <1>3, <1>4, <1>6, <2>1 DEF SendsInOrder
  <2> QED
    BY <2>2 DEF SendsInOrder, q
<1>7. ASSUME NEW n
      PROVE  /\ Deliveries(n)' = Deliveries(n) /\ Posted(n)' = Posted(n)
             /\ DeliveriesInOrder(n) => DeliveriesInOrder(n)'
  <2>1. Deliveries(n)' = {i \in 1..Len(q) : q[i].op = "deliver" /\ q[i].call = n}
    BY DEF Deliveries, q
  <2>2. Deliveries(n)' = Deliveries(n)
    BY <1>2, <1>3, <1>4, <2>1 DEF Deliveries
  <2>3. \A i \in Deliveries(n) : q[i] = strandQ[i]
    BY <1>2 DEF Deliveries
  <2>4. Posted(n)' = {q[i].msg : i \in Deliveries(n)}
    BY <2>2 DEF Posted, q
  <2>5. Posted(n)' = Posted(n)
    BY <2>3, <2>4 DEF Posted
  <2>6. DeliveriesInOrder(n)' <=> \A i, j \in Deliveries(n) : i < j => q[i].msg < q[j].msg
    BY <2>2 DEF DeliveriesInOrder, q
  <2> QED
    BY <2>2, <2>3, <2>5, <2>6 DEF DeliveriesInOrder
<1> QED
  BY <1>5, <1>6, <1>7 DEF c

\* The oldest thing in the strand is run.
LEMMA StrandTail ==
    ASSUME TypeInv, strandQ # <<>>, strandQ' = Tail(strandQ)
    PROVE  LET h == Head(strandQ)
           IN  /\ h = strandQ[1] /\ 1 \in 1..Len(strandQ)
               /\ \/ h.op = "send" /\ h.call \in 1..Len(calls)
                  \/ /\ h.op = "deliver" /\ h.call \in Regular \cup Single
                     /\ h.msg \in 1..published
               /\ SendsInOrder => SendsInOrder'
               /\ h.op # "send" => Sends' = Sends
               /\ h.op = "send" /\ SendsInOrder =>
                     /\ h.call \in Sends /\ Sends' = Sends \ {h.call}
                     /\ Before({h.call}, Sends')
               /\ \A n :
                     /\ \A i \in 1..Len(strandQ) :
                           i \in Deliveries(n) <=> \/ i = 1 /\ h.op = "deliver" /\ h.call = n
                                                   \/ i - 1 \in Deliveries(n)'
                     /\ Deliveries(n)' \subseteq 1..(Len(strandQ) - 1)
                     /\ DeliveriesInOrder(n) => DeliveriesInOrder(n)'
                     /\ h.op # "deliver" \/ h.call # n => Posted(n)' = Posted(n)
                     /\ h.op = "deliver" /\ h.call = n =>
                           /\ Posted(n) = {h.msg} \cup Posted(n)'
                           /\ DeliveriesInOrder(n) => Before({h.msg}, Posted(n)')
<1> DEFINE h == Head(strandQ)
           q == strandQ'
           L == Len(strandQ)
<1>1. /\ h = strandQ[1] /\ L \in Nat \ {0} /\ Len(q) = L - 1
      /\ \A i \in 1..(L - 1) : q[i] = strandQ[i + 1]
  BY TailIs DEF TypeInv, TypeOK
<1>2. 1 \in 1..L /\ \A i \in 1..L : i = 1 \/ (i - 1 \in 1..(L - 1) /\ q[i - 1] = strandQ[i])
  <2>1. \A i \in 1..L : i = 1 \/ (i - 1 \in 1..(L - 1) /\ (i - 1) + 1 = i)
    BY <1>1
  <2> QED
    BY <1>1, <2>1
<1>3. \/ h.op = "send" /\ h.call \in 1..Len(calls)
      \/ h.op = "deliver" /\ h.call \in Regular \cup Single /\ h.msg \in 1..published
  BY <1>1, <1>2, StrandTypes
<1>4. /\ Sends' = {q[i].call : i \in {j \in 1..Len(q) : q[j].op = "send"}}
      /\ SendsInOrder' <=> \A i, j \in 1..Len(q) :
            i < j /\ q[i].op = "send" /\ q[j].op = "send" => q[i].call < q[j].call
      /\ \A n : Deliveries(n)' = {i \in 1..Len(q) : q[i].op = "deliver" /\ q[i].call = n}
      /\ \A n : Posted(n)' = {q[i].msg : i \in Deliveries(n)'}
      /\ \A n : DeliveriesInOrder(n)' <=>
            \A i, j \in Deliveries(n)' : i < j => q[i].msg < q[j].msg
  BY DEF Sends, SendsInOrder, Deliveries, Posted, DeliveriesInOrder, q
<1>5. \A i \in 1..(L - 1) : i + 1 \in 1..L /\ i + 1 > 1
  BY <1>1
<1> HIDE DEF h, q, L
<1>6. SendsInOrder => SendsInOrder'
  <2> SUFFICES ASSUME SendsInOrder, NEW i \in 1..(L - 1), NEW j \in 1..(L - 1), i < j,
                      q[i].op = "send", q[j].op = "send"
               PROVE  q[i].call < q[j].call
    BY <1>1, <1>4
  <2>1. i + 1 \in 1..L /\ j + 1 \in 1..L /\ i + 1 < j + 1
    BY <1>5
  <2>2. q[i] = strandQ[i + 1] /\ q[j] = strandQ[j + 1]
    BY <1>1
  <2> QED
    BY <2>1, <2>2 DEF SendsInOrder, L
<1>7. Sends = IF h.op = "send" THEN {h.call} \cup Sends' ELSE Sends'
  <2>1. \A x \in Sends : (x = h.call /\ h.op = "send") \/ x \in Sends'
    <3> SUFFICES ASSUME NEW i \in 1..L, strandQ[i].op = "send", i # 1
                 PROVE  strandQ[i].call \in Sends'
      BY <1>1 DEF Sends, L
    <3>1. i - 1 \in 1..(L - 1) /\ q[i - 1] = strandQ[i]
      BY <1>2
    <3> QED
      BY <1>1, <1>4, <3>1
  <2>2. Sends' \subseteq Sends
    BY <1>1, <1>4, <1>5 DEF Sends, L
  <2>3. h.op = "send" => h.call \in Sends
    BY <1>1, <1>2 DEF Sends, L
  <2> QED
    BY <2>1, <2>2, <2>3
<1>8. ASSUME h.op = "send", SendsInOrder
      PROVE  h.call \in Sends /\ Sends' = Sends \ {h.call} /\ Before({h.call}, Sends')
  <2>1. \A x \in Sends' : h.call < x
    BY <1>1, <1>2, <1>4, <1>5, <1>8 DEF SendsInOrder, L
  <2>2. h.call \in Int
    BY <1>3, <1>8
  <2> QED
    BY <1>7, <1>8, <2>1, <2>2 DEF Before
<1>9. ASSUME NEW n
      PROVE  /\ \A i \in 1..L :
                   i \in Deliveries(n) <=> \/ i = 1 /\ h.op = "deliver" /\ h.call = n
                                           \/ i - 1 \in Deliveries(n)'
             /\ Deliveries(n)' \subseteq 1..(L - 1)
  BY <1>1, <1>2, <1>4 DEF Deliveries, L
<1>10. ASSUME NEW n, DeliveriesInOrder(n) PROVE DeliveriesInOrder(n)'
  <2>1. \A i \in Deliveries(n)' : i + 1 \in Deliveries(n) /\ q[i] = strandQ[i + 1] /\ i \in Nat
    BY <1>1, <1>4, <1>5 DEF Deliveries, L
  <2> SUFFICES ASSUME NEW i \in Deliveries(n)', NEW j \in Deliveries(n)', i < j
               PROVE  q[i].msg < q[j].msg
    BY <1>4
  <2>2. i + 1 < j + 1
    BY <2>1
  <2> QED
    BY <1>10, <2>1, <2>2 DEF DeliveriesInOrder
<1>11. ASSUME NEW n
       PROVE  Posted(n) = IF h.op = "deliver" /\ h.call = n THEN {h.msg} \cup Posted(n)'
                          ELSE Posted(n)'
  <2>1. \A i \in Deliveries(n)' : i + 1 \in Deliveries(n) /\ q[i] = strandQ[i + 1]
    BY <1>1, <1>4, <1>5 DEF Deliveries, L
  <2>2. \A i \in Deliveries(n) : \/ i = 1 /\ h.op = "deliver" /\ h.call = n
                                 \/ i - 1 \in Deliveries(n)' /\ q[i - 1] = strandQ[i]
    BY <1>1, <1>2, <1>4 DEF Deliveries, L
  <2>3. h.op = "deliver" /\ h.call = n => 1 \in Deliveries(n)
    BY <1>1, <1>2 DEF Deliveries, L
  <2>0. Posted(n)' = {q[i].msg : i \in Deliveries(n)'}
    BY <1>4
  <2>4. Posted(n)' \subseteq Posted(n)
    <3> SUFFICES ASSUME NEW i \in Deliveries(n)' PROVE q[i].msg \in Posted(n)
      BY <2>0
    <3> QED
      BY <2>1 DEF Posted
  <2>5. \A x \in Posted(n) : (x = h.msg /\ h.op = "deliver" /\ h.call = n) \/ x \in Posted(n)'
    <3> SUFFICES ASSUME NEW i \in Deliveries(n)
                 PROVE  \/ strandQ[i].msg = h.msg /\ h.op = "deliver" /\ h.call = n
                        \/ strandQ[i].msg \in Posted(n)'
      BY DEF Posted
    <3> QED
      BY <1>1, <2>0, <2>2
  <2>6. h.op = "deliver" /\ h.call = n => h.msg \in Posted(n)
    BY <1>1, <2>3 DEF Posted
  <2> QED
    BY <2>4, <2>5, <2>6
<1>12. ASSUME NEW n, h.op = "deliver", h.call = n, DeliveriesInOrder(n)
       PROVE  Before({h.msg}, Posted(n)')
  <2>1. 1 \in Deliveries(n)
    BY <1>1, <1>2, <1>12 DEF Deliveries, L
  <2>2. \A i \in Deliveries(n)' : i + 1 \in Deliveries(n) /\ q[i] = strandQ[i + 1] /\ i + 1 > 1
    BY <1>1, <1>4, <1>5 DEF Deliveries, L
  <2>3. \A i \in Deliveries(n)' : h.msg < q[i].msg
    BY <1>1, <1>12, <2>1, <2>2 DEF DeliveriesInOrder
  <2> QED
    BY <1>4, <2>3 DEF Before
<1> QED
  BY <1>1, <1>2, <1>3, <1>6, <1>7, <1>8, <1>9, <1>10, <1>11, <1>12 DEF h, L

\* Place i, after the first l, holds what posts has for call n.
Added(posts, n, l, i) == i \in Nat /\ i - l \in 1..Len(posts) /\ posts[i - l].call = n

\* A message is given out.
LEMMA StrandPosts ==
    ASSUME TypeInv, NEW v, v.msg \in 1..published, NEW posts \in Seq(Posting),
           strandQ' = strandQ \o posts, AllOf(posts, v)
    PROVE  /\ Sends' = Sends /\ (SendsInOrder => SendsInOrder')
           /\ Len(strandQ) \in Nat /\ Len(posts) \in Nat
           /\ \A n :
                 /\ Deliveries(n) \subseteq Deliveries(n)' /\ Deliveries(n) \subseteq 1..Len(strandQ)
                 /\ \A i \in Deliveries(n)' :
                       i \in Deliveries(n) \/ Added(posts, n, Len(strandQ), i)
                 /\ \A i \in 1..Len(posts) :
                       posts[i].call = n => Len(strandQ) + i \in Deliveries(n)'
                 /\ Given(posts, n) => Posted(n)' = Posted(n) \cup {v.msg}
                 /\ ~Given(posts, n) => Posted(n)' = Posted(n)
                 /\ DeliveriesInOrder(n) /\ Before(Posted(n), {v.msg}) /\ GivenOnce(posts, n)
                    => DeliveriesInOrder(n)'
                 /\ DeliveriesInOrder(n) /\ ~Given(posts, n)
                    => DeliveriesInOrder(n)'
<1> DEFINE q == strandQ'
           L == Len(strandQ)
           m == v.msg
<1>1. /\ L \in Nat /\ Len(posts) \in Nat /\ Len(q) = L + Len(posts)
      /\ \A i \in 1..(L + Len(posts)) : q[i] = IF i <= L THEN strandQ[i] ELSE posts[i - L]
  BY ConcatProperties, LenProperties DEF TypeInv, TypeOK
<1>2. /\ Sends' = {q[i].call : i \in {j \in 1..Len(q) : q[j].op = "send"}}
      /\ SendsInOrder' <=> \A i, j \in 1..Len(q) :
            i < j /\ q[i].op = "send" /\ q[j].op = "send" => q[i].call < q[j].call
      /\ \A n : Deliveries(n)' = {i \in 1..Len(q) : q[i].op = "deliver" /\ q[i].call = n}
      /\ \A n : Posted(n)' = {q[i].msg : i \in Deliveries(n)'}
      /\ \A n : DeliveriesInOrder(n)' <=>
            \A i, j \in Deliveries(n)' : i < j => q[i].msg < q[j].msg
  BY DEF Sends, SendsInOrder, Deliveries, Posted, DeliveriesInOrder, q
<1>20. \A i \in 1..Len(posts) : posts[i].op = "deliver" /\ posts[i].msg = m
  BY DEF AllOf
<1>21. \A n : GivenOnce(posts, n) <=> \A i, j \in 1..Len(posts) :
                                        posts[i].call = n /\ posts[j].call = n => i = j
  BY DEF GivenOnce
<1> HIDE DEF q, L, m
<1>3. \A i \in 1..L : i \in 1..Len(q) /\ q[i] = strandQ[i]
  BY <1>1
<1>4. \A i \in 1..Len(posts) : L + i \in 1..Len(q) /\ q[L + i] = posts[i]
  <2> SUFFICES ASSUME NEW i \in 1..Len(posts)
               PROVE  L + i \in 1..Len(q) /\ q[L + i] = posts[i]
    OBVIOUS
  <2>1. L + i \in 1..(L + Len(posts)) /\ ~(L + i <= L) /\ (L + i) - L = i
    BY <1>1
  <2> QED
    BY <1>1, <2>1
<1>5. \A i \in 1..Len(q) : i \in 1..L \/ (i - L \in 1..Len(posts) /\ q[i] = posts[i - L] /\ i > L)
  BY <1>1
<1>6. \A i \in 1..Len(q) : q[i].op = "send" => i \in 1..L
  BY <1>5, <1>20
<1>7. Sends' = Sends
  <2>1. \A i \in 1..Len(q) : q[i].op = "send" => q[i].call \in Sends
    BY <1>3, <1>6 DEF Sends, L
  <2>2. \A i \in 1..L : strandQ[i].op = "send" => strandQ[i].call \in Sends'
    BY <1>2, <1>3
  <2>3. Sends' \subseteq Sends
    BY <1>2, <2>1
  <2>4. Sends \subseteq Sends'
    BY <2>2 DEF Sends, L
  <2> QED
    BY <2>3, <2>4
<1>8. SendsInOrder => SendsInOrder'
  <2> SUFFICES ASSUME SendsInOrder, NEW i \in 1..Len(q), NEW j \in 1..Len(q), i < j,
                      q[i].op = "send", q[j].op = "send"
               PROVE  q[i].call < q[j].call
    BY <1>2
  <2>1. i \in 1..L /\ j \in 1..L /\ q[i] = strandQ[i] /\ q[j] = strandQ[j]
    BY <1>3, <1>6
  <2> QED
    BY <2>1 DEF SendsInOrder, L
<1>9. ASSUME NEW n
      PROVE  /\ Deliveries(n) \subseteq Deliveries(n)' /\ Deliveries(n) \subseteq 1..L
             /\ \A i \in Deliveries(n)' :
                   \/ i \in Deliveries(n) /\ q[i] = strandQ[i]
                   \/ i - L \in 1..Len(posts) /\ posts[i - L].call = n /\ q[i].msg = m /\ i \in Nat
             /\ \A i \in 1..Len(posts) :
                   posts[i].call = n => L + i \in Deliveries(n)' /\ q[L + i].msg = m
  <2>1. Deliveries(n)' = {i \in 1..Len(q) : q[i].op = "deliver" /\ q[i].call = n}
    BY <1>2
  <2>2. Deliveries(n) = {i \in 1..L : strandQ[i].op = "deliver" /\ strandQ[i].call = n}
    BY DEF Deliveries, L
  <2>3. Deliveries(n) \subseteq Deliveries(n)' /\ Deliveries(n) \subseteq 1..L
    BY <1>3, <2>1, <2>2
  <2>4. \A i \in 1..Len(posts) : posts[i].call = n => L + i \in Deliveries(n)' /\ q[L + i].msg = m
    BY <1>4, <1>20, <2>1
  <2>5. ASSUME NEW i \in Deliveries(n)'
        PROVE  \/ i \in Deliveries(n) /\ q[i] = strandQ[i]
               \/ i - L \in 1..Len(posts) /\ posts[i - L].call = n /\ q[i].msg = m /\ i \in Nat
    <3>1. i \in 1..Len(q) /\ q[i].op = "deliver" /\ q[i].call = n
      BY <2>1
    <3>2. CASE i \in 1..L
      BY <1>3, <2>2, <3>1, <3>2
    <3>3. CASE i - L \in 1..Len(posts) /\ q[i] = posts[i - L]
      BY <1>20, <3>1, <3>3
    <3> QED
      BY <1>5, <3>1, <3>2, <3>3
  <2> QED
    BY <2>3, <2>4, <2>5
<1>10. ASSUME NEW n
       PROVE  /\ Given(posts, n) => Posted(n)' = Posted(n) \cup {m}
              /\ ~Given(posts, n) => Posted(n)' = Posted(n)
  <2>1. Posted(n)' = {q[i].msg : i \in Deliveries(n)'}
    BY <1>2
  <2>2. \A i \in Deliveries(n) : i \in Deliveries(n)' /\ q[i] = strandQ[i]
    BY <1>3, <1>9
  <2>3. Posted(n) \subseteq Posted(n)'
    <3> SUFFICES ASSUME NEW i \in Deliveries(n) PROVE strandQ[i].msg \in Posted(n)'
      BY DEF Posted
    <3> QED
      BY <2>1, <2>2
  <2>4. ASSUME NEW x \in Posted(n)'
        PROVE  x \in Posted(n) \/ (x = m /\ Given(posts, n))
    <3>1. PICK i \in Deliveries(n)' : x = q[i].msg
      BY <2>1
    <3>2. CASE i \in Deliveries(n) /\ q[i] = strandQ[i]
      BY <3>1, <3>2 DEF Posted
    <3>3. CASE i - L \in 1..Len(posts) /\ posts[i - L].call = n /\ q[i].msg = m
      BY <3>1, <3>3 DEF Given
    <3> QED
      BY <1>9, <3>2, <3>3
  <2>5. ASSUME Given(posts, n) PROVE m \in Posted(n)'
    <3>1. PICK i \in 1..Len(posts) : L + i \in Deliveries(n)' /\ q[L + i].msg = m
      BY <1>9, <2>5 DEF Given
    <3> QED
      BY <2>1, <3>1
  <2> QED
    BY <2>3, <2>4, <2>5
<1>11. ASSUME NEW n, DeliveriesInOrder(n),
              \/ /\ Before(Posted(n), {m})
                 /\ GivenOnce(posts, n)
              \/ ~Given(posts, n)
       PROVE  DeliveriesInOrder(n)'
  <2> SUFFICES ASSUME NEW i \in Deliveries(n)', NEW j \in Deliveries(n)', i < j
               PROVE  q[i].msg < q[j].msg
    BY <1>2
  <2>1. CASE i \in Deliveries(n) /\ j \in Deliveries(n)
    BY <1>3, <1>9, <1>11, <2>1 DEF DeliveriesInOrder
  <2>2. CASE i \in Deliveries(n) /\ j \notin Deliveries(n)
    <3>1. q[j].msg = m /\ Given(posts, n)
      BY <1>9, <2>2 DEF Given
    <3>2. q[i] = strandQ[i] /\ strandQ[i].msg \in Posted(n)
      BY <1>3, <1>9, <2>2 DEF Posted
    <3> QED
      BY <1>11, <3>1, <3>2 DEF Before
  <2>3. CASE i \notin Deliveries(n)
    <3>1. i - L \in 1..Len(posts) /\ posts[i - L].call = n /\ i \in Nat
      BY <1>9, <2>3
    <3>2. j \notin Deliveries(n)
      <4>1. i > L
        BY <1>1, <3>1
      <4> QED
        BY <1>1, <1>9, <4>1
    <3>3. j - L \in 1..Len(posts) /\ posts[j - L].call = n /\ j \in Nat
      BY <1>9, <3>2
    <3>4. Given(posts, n)
      BY <3>1 DEF Given
    <3>5. i - L = j - L
      BY <1>21, <1>11, <3>1, <3>3, <3>4
    <3> QED
      BY <1>1, <3>1, <3>3, <3>5
  <2> QED
    BY <2>1, <2>2, <2>3
<1> QED
  BY <1>1, <1>7, <1>8, <1>9, <1>10, <1>11 DEF L, m, Added
-----------------------------------------------------------------------------
(***************************************************************************)
(* What the steps do to what the client has still to parse                 *)
(***************************************************************************)

\* The replies on their way.
Replies == {toClient[i].call : i \in {j \in 1..Len(toClient) : toClient[j].what # "message"}}

RepliesInOrder ==
    \A i, j \in 1..Len(toClient) :
        i < j /\ toClient[i].what # "message" /\ toClient[j].what # "message" =>
            toClient[i].call < toClient[j].call

\* Where the messages of a subscription are.
Carried(kind, name) ==
    {j \in 1..Len(toClient) :
        toClient[j].what = "message" /\ toClient[j].kind = kind /\ toClient[j].name = name}

MessagesInOrder ==
    \A kind \in Kind, name \in Names : \A i, j \in Carried(kind, name) :
        i < j => toClient[i].msg < toClient[j].msg

LEMMA ClientTypes ==
    ASSUME TypeInv
    PROVE  /\ Len(toClient) \in Nat /\ Len(calls) \in Nat /\ Replies \subseteq 1..Len(calls)
           /\ \A i \in 1..Len(toClient) :
                 \/ /\ toClient[i].what = "message" /\ toClient[i].kind \in Kind
                    /\ toClient[i].name \in Names /\ toClient[i].msg \in 1..published
                 \/ /\ toClient[i].what \in {"subscribe", "unsubscribe", "plain"}
                    /\ toClient[i].call \in 1..Len(calls)
                    /\ toClient[i].what = calls[toClient[i].call].verb
           /\ \A kind, name : InTransit(kind, name) = {toClient[i].msg : i \in Carried(kind, name)}
           /\ \A kind, name : InTransit(kind, name) \subseteq 1..published
           /\ \A n \in Replies : \E i \in 1..Len(toClient) :
                 toClient[i].what = calls[n].verb /\ toClient[i].call = n
<1>1. Len(toClient) \in Nat /\ Len(calls) \in Nat
  BY LenProperties DEF TypeInv, TypeOK
<1>2. ASSUME NEW i \in 1..Len(toClient)
      PROVE  \/ /\ toClient[i].what = "message" /\ toClient[i].kind \in Kind
                /\ toClient[i].name \in Names /\ toClient[i].msg \in 1..published
             \/ /\ toClient[i].what \in {"subscribe", "unsubscribe", "plain"}
                /\ toClient[i].call \in 1..Len(calls)
                /\ toClient[i].what = calls[toClient[i].call].verb
  <2>1. CASE \E n \in 1..Len(calls) : toClient[i] = Reply(n)
    <3>1. PICK n \in 1..Len(calls) : toClient[i] = Reply(n)
      BY <2>1
    <3>2. calls[n].verb \in {"subscribe", "unsubscribe", "plain"}
      BY Shapes DEF TypeInv, CallInfo
    <3>3. toClient[i].what = calls[n].verb /\ toClient[i].call = n
      BY <3>1 DEF Reply
    <3> QED
      BY <3>2, <3>3
  <2>2. CASE \E k \in Kind, x \in Names, m \in 1..published : toClient[i] = Message(k, x, m)
    BY <2>2 DEF Message
  <2> QED
    BY <2>1, <2>2, Shapes DEF TypeInv
<1>3. Replies \subseteq 1..Len(calls)
  BY <1>2 DEF Replies
<1>4. \A kind, name : InTransit(kind, name) = {toClient[i].msg : i \in Carried(kind, name)}
  BY DEF InTransit, Carried
<1>5. \A kind, name : \A i \in Carried(kind, name) : toClient[i].msg \in 1..published
  BY <1>2 DEF Carried
<1>6. \A kind, name : InTransit(kind, name) \subseteq 1..published
  BY <1>4, <1>5
<1>7. ASSUME NEW n \in Replies
      PROVE  \E i \in 1..Len(toClient) : toClient[i].what = calls[n].verb /\ toClient[i].call = n
  BY <1>2, <1>7 DEF Replies
<1> QED
  BY <1>1, <1>2, <1>3, <1>4, <1>6, <1>7

\* The next value is parsed.
LEMMA ClientTail ==
    ASSUME TypeInv, toClient # <<>>, toClient' = Tail(toClient)
    PROVE  LET v == Head(toClient)
           IN  /\ RepliesInOrder => RepliesInOrder'
               /\ MessagesInOrder => MessagesInOrder'
               /\ \A i \in 1..Len(toClient') : \E j \in 1..Len(toClient) : toClient'[i] = toClient[j]
               /\ v.what = "message" =>
                     /\ Replies' = Replies
                     /\ \A kind \in Kind, name \in Names :
                           IF v.kind = kind /\ v.name = name
                           THEN /\ InTransit(kind, name) = {v.msg} \cup InTransit(kind, name)'
                                /\ MessagesInOrder => Before({v.msg}, InTransit(kind, name)')
                           ELSE InTransit(kind, name)' = InTransit(kind, name)
               /\ v.what # "message" =>
                     /\ \A kind, name : InTransit(kind, name)' = InTransit(kind, name)
                     /\ v.call \in Replies
                     /\ RepliesInOrder => /\ Replies' = Replies \ {v.call}
                                          /\ Before({v.call}, Replies')
<1> DEFINE v == Head(toClient)
           q == toClient'
           L == Len(toClient)
<1>1. /\ v = toClient[1] /\ L \in Nat \ {0} /\ Len(q) = L - 1
      /\ \A i \in 1..(L - 1) : q[i] = toClient[i + 1]
  BY TailIs DEF TypeInv, TypeOK
<1>2. 1 \in 1..L /\ \A i \in 1..L : i = 1 \/ (i - 1 \in 1..(L - 1) /\ q[i - 1] = toClient[i])
  <2>1. \A i \in 1..L : i = 1 \/ (i - 1 \in 1..(L - 1) /\ (i - 1) + 1 = i)
    BY <1>1
  <2> QED
    BY <1>1, <2>1
<1>3. \A i \in 1..Len(q) : i + 1 \in 1..L /\ i + 1 > 1 /\ q[i] = toClient[i + 1]
  BY <1>1
<1>4. \A i, j \in 1..Len(q) : i < j => i + 1 < j + 1
  BY <1>1
<1>5. /\ Replies' = {q[i].call : i \in {j \in 1..Len(q) : q[j].what # "message"}}
      /\ RepliesInOrder' <=> \A i, j \in 1..Len(q) :
            i < j /\ q[i].what # "message" /\ q[j].what # "message" => q[i].call < q[j].call
      /\ \A kind, name : Carried(kind, name)' =
            {j \in 1..Len(q) : q[j].what = "message" /\ q[j].kind = kind /\ q[j].name = name}
      /\ \A kind, name : InTransit(kind, name)' = {q[i].msg : i \in Carried(kind, name)'}
      /\ MessagesInOrder' <=> \A kind \in Kind, name \in Names :
            \A i, j \in Carried(kind, name)' : i < j => q[i].msg < q[j].msg
  BY DEF Replies, RepliesInOrder, Carried, InTransit, MessagesInOrder, q
<1> HIDE DEF v, q, L
<1>6. ASSUME RepliesInOrder PROVE RepliesInOrder'
  <2> SUFFICES ASSUME NEW i \in 1..Len(q), NEW j \in 1..Len(q), i < j,
                      q[i].what # "message", q[j].what # "message"
               PROVE  q[i].call < q[j].call
    BY <1>5
  <2>1. i + 1 \in 1..L /\ j + 1 \in 1..L /\ i + 1 < j + 1
    BY <1>3, <1>4
  <2>2. q[i] = toClient[i + 1] /\ q[j] = toClient[j + 1]
    BY <1>3
  <2> QED
    BY <1>6, <2>1, <2>2 DEF RepliesInOrder, L
<1>7. \A kind, name : \A i \in Carried(kind, name)' : i \in 1..Len(q) /\ i + 1 \in Carried(kind, name)
  <2> SUFFICES ASSUME NEW kind, NEW name, NEW i \in Carried(kind, name)'
               PROVE  i \in 1..Len(q) /\ i + 1 \in Carried(kind, name)
    OBVIOUS
  <2>1. i \in 1..Len(q) /\ q[i].what = "message" /\ q[i].kind = kind /\ q[i].name = name
    BY <1>5
  <2> QED
    BY <1>3, <2>1 DEF Carried, L
<1>8. ASSUME MessagesInOrder PROVE MessagesInOrder'
  <2> SUFFICES ASSUME NEW kind \in Kind, NEW name \in Names, NEW i \in Carried(kind, name)',
                      NEW j \in Carried(kind, name)', i < j
               PROVE  q[i].msg < q[j].msg
    BY <1>5
  <2>1. i + 1 \in Carried(kind, name) /\ j + 1 \in Carried(kind, name) /\ i + 1 < j + 1
    BY <1>4, <1>7
  <2>2. q[i] = toClient[i + 1] /\ q[j] = toClient[j + 1]
    BY <1>3, <1>7
  <2> QED
    BY <1>8, <2>1, <2>2 DEF MessagesInOrder
<1>9. \A kind, name : \A i \in Carried(kind, name) :
         \/ i = 1 /\ v.what = "message" /\ v.kind = kind /\ v.name = name
         \/ i - 1 \in Carried(kind, name)' /\ q[i - 1] = toClient[i]
  BY <1>1, <1>2, <1>5 DEF Carried, L
<1>10. ASSUME NEW kind, NEW name
       PROVE  /\ InTransit(kind, name)' \subseteq InTransit(kind, name)
              /\ \A x \in InTransit(kind, name) :
                   \/ x = v.msg /\ v.what = "message" /\ v.kind = kind /\ v.name = name
                   \/ x \in InTransit(kind, name)'
              /\ v.what = "message" /\ v.kind = kind /\ v.name = name
                 => v.msg \in InTransit(kind, name)
  <2>1. /\ InTransit(kind, name) = {toClient[i].msg : i \in Carried(kind, name)}
        /\ InTransit(kind, name)' = {q[i].msg : i \in Carried(kind, name)'}
    BY <1>5, ClientTypes
  <2>2. InTransit(kind, name)' \subseteq InTransit(kind, name)
    <3> SUFFICES ASSUME NEW i \in Carried(kind, name)' PROVE q[i].msg \in InTransit(kind, name)
      BY <2>1
    <3>1. i + 1 \in Carried(kind, name) /\ q[i] = toClient[i + 1]
      BY <1>3, <1>7
    <3> QED
      BY <2>1, <3>1
  <2>3. ASSUME NEW i \in Carried(kind, name)
        PROVE  \/ toClient[i].msg = v.msg /\ v.what = "message" /\ v.kind = kind /\ v.name = name
               \/ toClient[i].msg \in InTransit(kind, name)'
    BY <1>1, <1>9, <2>1
  <2>4. v.what = "message" /\ v.kind = kind /\ v.name = name => 1 \in Carried(kind, name)
    BY <1>1, <1>2 DEF Carried, L
  <2> QED
    BY <1>1, <2>1, <2>2, <2>3, <2>4
<1>11. ASSUME MessagesInOrder, v.what = "message", NEW kind \in Kind, NEW name \in Names,
              v.kind = kind, v.name = name
       PROVE  Before({v.msg}, InTransit(kind, name)')
  <2>1. 1 \in Carried(kind, name)
    BY <1>1, <1>2, <1>11 DEF Carried, L
  <2>2. ASSUME NEW i \in Carried(kind, name)' PROVE v.msg < q[i].msg
    <3>1. i + 1 \in Carried(kind, name) /\ q[i] = toClient[i + 1] /\ 1 < i + 1
      BY <1>3, <1>7
    <3> QED
      BY <1>1, <1>11, <2>1, <3>1 DEF MessagesInOrder
  <2>3. InTransit(kind, name)' = {q[i].msg : i \in Carried(kind, name)'}
    BY <1>5
  <2> QED
    BY <2>2, <2>3 DEF Before
<1>12. /\ Replies' \subseteq Replies
       /\ \A x \in Replies : (x = v.call /\ v.what # "message") \/ x \in Replies'
       /\ v.what # "message" => v.call \in Replies
  <2>1. ASSUME NEW i \in 1..Len(q), q[i].what # "message" PROVE q[i].call \in Replies
    <3>1. i + 1 \in 1..L /\ q[i] = toClient[i + 1]
      BY <1>3
    <3> QED
      BY <2>1, <3>1 DEF Replies, L
  <2>2. ASSUME NEW i \in 1..L, toClient[i].what # "message"
        PROVE  (toClient[i].call = v.call /\ v.what # "message") \/ toClient[i].call \in Replies'
    BY <1>1, <1>2, <1>5, <2>2
  <2>3. v.what # "message" => v.call \in Replies
    BY <1>1, <1>2 DEF Replies, L
  <2>4. Replies' \subseteq Replies
    BY <1>5, <2>1
  <2>5. \A x \in Replies : (x = v.call /\ v.what # "message") \/ x \in Replies'
    BY <2>2 DEF Replies, L
  <2> QED
    BY <2>3, <2>4, <2>5
<1>13. ASSUME RepliesInOrder, v.what # "message"
       PROVE  Before({v.call}, Replies') /\ Replies' = Replies \ {v.call}
  <2>1. ASSUME NEW i \in 1..Len(q), q[i].what # "message" PROVE v.call < q[i].call
    <3>1. i + 1 \in 1..L /\ q[i] = toClient[i + 1] /\ 1 < i + 1
      BY <1>3
    <3> QED
      BY <1>1, <1>2, <1>13, <2>1, <3>1 DEF RepliesInOrder, L
  <2>2. \A x \in Replies' : v.call < x
    BY <1>5, <2>1
  <2>3. v.call \in Int
    BY <1>12, <1>13, ClientTypes
  <2>4. v.call \notin Replies'
    BY <2>2, <2>3
  <2> QED
    BY <1>12, <2>2, <2>4 DEF Before
<1>14. v.what = "message" => Replies' = Replies
  BY <1>12
<1>15. ASSUME NEW kind, NEW name, ~(v.what = "message" /\ v.kind = kind /\ v.name = name)
       PROVE  InTransit(kind, name)' = InTransit(kind, name)
  <2>1. /\ InTransit(kind, name)' \subseteq InTransit(kind, name)
        /\ InTransit(kind, name) \subseteq InTransit(kind, name)'
    BY <1>10, <1>15
  <2> QED
    BY <2>1
<1>16. ASSUME v.what = "message", NEW kind \in Kind, NEW name \in Names
       PROVE  IF v.kind = kind /\ v.name = name
              THEN /\ InTransit(kind, name) = {v.msg} \cup InTransit(kind, name)'
                   /\ MessagesInOrder => Before({v.msg}, InTransit(kind, name)')
              ELSE InTransit(kind, name)' = InTransit(kind, name)
  <2>1. CASE v.kind = kind /\ v.name = name
    <3>1. InTransit(kind, name) = {v.msg} \cup InTransit(kind, name)'
      BY <1>10, <1>16, <2>1
    <3> QED
      BY <1>11, <1>16, <2>1, <3>1
  <2>2. CASE ~(v.kind = kind /\ v.name = name)
    BY <1>15, <2>2
  <2> QED
    BY <2>1, <2>2
<1>17. \A i \in 1..Len(toClient') : \E j \in 1..Len(toClient) : toClient'[i] = toClient[j]
  BY <1>3 DEF q, L
<1> QED
  BY <1>6, <1>8, <1>12, <1>13, <1>14, <1>15, <1>16, <1>17 DEF v

\* The server answers a command.
LEMMA ClientReply ==
    ASSUME TypeInv, NEW n \in 1..Len(calls), toClient' = Append(toClient, Reply(n))
    PROVE  /\ Replies' = Replies \cup {n}
           /\ RepliesInOrder /\ Before(Replies, {n}) => RepliesInOrder'
           /\ \A kind, name : InTransit(kind, name)' = InTransit(kind, name)
           /\ MessagesInOrder => MessagesInOrder'
           /\ \A i \in 1..Len(toClient') :
                 toClient'[i].what = "message" => \E j \in 1..Len(toClient) : toClient'[i] = toClient[j]
<1> DEFINE q == toClient'
           L == Len(toClient)
           r == Reply(n)
<1>1. /\ Len(q) = L + 1 /\ L \in Nat
      /\ \A i \in 1..L : q[i] = toClient[i]
      /\ q[L + 1] = r
  <2>1. toClient \in Seq(Served) /\ r \in Served
    BY DEF TypeInv, TypeOK, Served
  <2> QED
    BY <2>1, AppendProperties, LenProperties
<1>2. r.what # "message" /\ r.call = n
  <2>1. calls[n].verb # "message"
    BY Shapes DEF TypeInv, CallInfo
  <2> QED
    BY <2>1 DEF Reply
<1>3. /\ Replies' = {q[i].call : i \in {j \in 1..Len(q) : q[j].what # "message"}}
      /\ RepliesInOrder' <=> \A i, j \in 1..Len(q) :
            i < j /\ q[i].what # "message" /\ q[j].what # "message" => q[i].call < q[j].call
      /\ \A kind, name : Carried(kind, name)' =
            {j \in 1..Len(q) : q[j].what = "message" /\ q[j].kind = kind /\ q[j].name = name}
      /\ \A kind, name : InTransit(kind, name)' = {q[i].msg : i \in Carried(kind, name)'}
      /\ MessagesInOrder' <=> \A kind \in Kind, name \in Names :
            \A i, j \in Carried(kind, name)' : i < j => q[i].msg < q[j].msg
  BY DEF Replies, RepliesInOrder, Carried, InTransit, MessagesInOrder, q
<1>4. /\ \A i \in 1..Len(q) : i \in 1..L \/ i = L + 1
      /\ \A i \in 1..L : i \in 1..Len(q) /\ i < L + 1 /\ ~(L + 1 < i)
      /\ L + 1 \in 1..Len(q) /\ ~(L + 1 < L + 1)
  BY <1>1
<1> HIDE DEF q, L, r
<1>5. Replies' = Replies \cup {n}
  <2>1. \A i \in 1..Len(q) : q[i].what # "message" => q[i].call = n \/ q[i].call \in Replies
    BY <1>1, <1>2, <1>4 DEF Replies, L
  <2>2. \A i \in 1..L : toClient[i].what # "message" => toClient[i].call \in Replies'
    BY <1>1, <1>3, <1>4
  <2>3. n \in Replies'
    BY <1>1, <1>2, <1>3, <1>4
  <2>4. Replies' \subseteq Replies \cup {n}
    BY <1>3, <2>1
  <2>5. Replies \subseteq Replies'
    BY <2>2 DEF Replies, L
  <2> QED
    BY <2>3, <2>4, <2>5
<1>6. ASSUME RepliesInOrder, Before(Replies, {n}) PROVE RepliesInOrder'
  <2> SUFFICES ASSUME NEW i \in 1..Len(q), NEW j \in 1..Len(q), i < j,
                      q[i].what # "message", q[j].what # "message"
               PROVE  q[i].call < q[j].call
    BY <1>3
  <2>1. i \in 1..L /\ q[i] = toClient[i]
    BY <1>1, <1>4
  <2>2. CASE j \in 1..L
    BY <1>1, <1>6, <2>1, <2>2 DEF RepliesInOrder, L
  <2>3. CASE j = L + 1
    <3>1. toClient[i].call \in Replies
      BY <2>1 DEF Replies, L
    <3> QED
      BY <1>1, <1>2, <1>6, <2>1, <2>3, <3>1 DEF Before
  <2> QED
    BY <1>4, <2>2, <2>3
<1>7. ASSUME NEW kind, NEW name
      PROVE  Carried(kind, name)' = Carried(kind, name)
             /\ \A i \in Carried(kind, name) : q[i] = toClient[i]
  <2>1. Carried(kind, name)' =
            {j \in 1..Len(q) : q[j].what = "message" /\ q[j].kind = kind /\ q[j].name = name}
    BY <1>3
  <2>2. Carried(kind, name) =
            {j \in 1..L : /\ toClient[j].what = "message" /\ toClient[j].kind = kind
                         /\ toClient[j].name = name}
    BY DEF Carried, L
  <2> QED
    BY <1>1, <1>2, <1>4, <2>1, <2>2
<1>8. ASSUME NEW kind, NEW name
      PROVE  InTransit(kind, name)' = InTransit(kind, name)
  <2>1. /\ InTransit(kind, name) = {toClient[i].msg : i \in Carried(kind, name)}
        /\ InTransit(kind, name)' = {q[i].msg : i \in Carried(kind, name)'}
    BY <1>3, ClientTypes
  <2> QED
    BY <1>7, <2>1
<1>9. ASSUME MessagesInOrder PROVE MessagesInOrder'
  <2> SUFFICES ASSUME NEW kind \in Kind, NEW name \in Names,
                      NEW i \in Carried(kind, name)', NEW j \in Carried(kind, name)', i < j
               PROVE  q[i].msg < q[j].msg
    BY <1>3
  <2>1. i \in Carried(kind, name) /\ j \in Carried(kind, name)
        /\ q[i] = toClient[i] /\ q[j] = toClient[j]
    BY <1>7
  <2> QED
    BY <1>9, <2>1 DEF MessagesInOrder
<1>10. \A i \in 1..Len(q) : q[i].what = "message" => i \in 1..L /\ q[i] = toClient[i]
  BY <1>1, <1>2, <1>4
<1> QED
  BY <1>5, <1>6, <1>8, <1>9, <1>10 DEF q, L

\* What is on its way is lost.
LEMMA ClientEmpty ==
    ASSUME toClient' = <<>>
    PROVE  /\ Replies' = {} /\ RepliesInOrder' /\ MessagesInOrder' /\ Len(toClient') = 0
           /\ \A kind, name : InTransit(kind, name)' = {}
<1>1. Len(toClient') = 0 /\ 1..0 = {}
  BY EmptySeq
<1> QED
  BY <1>1 DEF Replies, RepliesInOrder, MessagesInOrder, Carried, InTransit

\* A message is published.
LEMMA ClientPublish ==
    ASSUME TypeInv, NEW c \in Channels, Publish(c)
    PROVE  /\ Replies' = Replies /\ (RepliesInOrder => RepliesInOrder')
           /\ MessagesInOrder => MessagesInOrder'
           /\ \A kind \in Kind, name \in Names :
                 InTransit(kind, name)' = IF SentFor(c, kind, name)
                                          THEN InTransit(kind, name) \cup {published + 1}
                                          ELSE InTransit(kind, name)
           /\ \A i \in 1..Len(toClient') :
                 \/ \E j \in 1..Len(toClient) : toClient'[i] = toClient[j]
                 \/ \E kind \in Kind, name \in Names :
                       SentFor(c, kind, name) /\ toClient'[i] = Message(kind, name, published + 1)
<1> DEFINE q == toClient'
           L == Len(toClient)
           m == published + 1
<1>1. /\ L \in Nat /\ Len(q) \in Nat /\ L <= Len(q) /\ published \in Nat
      /\ \A i \in 1..L : q[i] = toClient[i]
      /\ \A i \in (L + 1)..Len(q) : \E kind \in Kind, name \in Names :
            SentFor(c, kind, name) /\ q[i] = Message(kind, name, m)
      /\ \A i, j \in (L + 1)..Len(q) : q[i] = q[j] => i = j
      /\ \A kind \in Kind, name \in Names : SentFor(c, kind, name) =>
            \E i \in (L + 1)..Len(q) : q[i] = Message(kind, name, m)
  BY Published
<1>2. /\ Replies' = {q[i].call : i \in {j \in 1..Len(q) : q[j].what # "message"}}
      /\ RepliesInOrder' <=> \A i, j \in 1..Len(q) :
            i < j /\ q[i].what # "message" /\ q[j].what # "message" => q[i].call < q[j].call
      /\ \A kind, name : Carried(kind, name)' =
            {j \in 1..Len(q) : q[j].what = "message" /\ q[j].kind = kind /\ q[j].name = name}
      /\ \A kind, name : InTransit(kind, name)' = {q[i].msg : i \in Carried(kind, name)'}
      /\ MessagesInOrder' <=> \A kind \in Kind, name \in Names :
            \A i, j \in Carried(kind, name)' : i < j => q[i].msg < q[j].msg
  BY DEF Replies, RepliesInOrder, Carried, InTransit, MessagesInOrder, q
<1>3. /\ \A i \in 1..Len(q) : i \in 1..L \/ i \in (L + 1)..Len(q)
      /\ \A i \in 1..L : i \in 1..Len(q) /\ \A j \in (L + 1)..Len(q) : i < j /\ ~(j < i)
      /\ \A i \in (L + 1)..Len(q) : i \in 1..Len(q) /\ i \notin 1..L
  BY <1>1
<1> HIDE DEF q, L, m
<1>4. \A k, x : /\ Message(k, x, m).what = "message" /\ Message(k, x, m).kind = k
                /\ Message(k, x, m).name = x /\ Message(k, x, m).msg = m
  BY DEF Message
<1>5. \A i \in (L + 1)..Len(q) :
         /\ q[i].what = "message" /\ q[i].msg = m /\ q[i].kind \in Kind /\ q[i].name \in Names
         /\ SentFor(c, q[i].kind, q[i].name) /\ q[i] = Message(q[i].kind, q[i].name, m)
  BY <1>1, <1>4
<1>6. \A i \in 1..Len(q) : q[i].what # "message" => i \in 1..L
  BY <1>3, <1>5
<1>7. Replies' = Replies
  <2>1. \A i \in 1..Len(q) : q[i].what # "message" => q[i].call \in Replies
    BY <1>1, <1>6 DEF Replies, L
  <2>2. \A i \in 1..L : toClient[i].what # "message" => toClient[i].call \in Replies'
    BY <1>1, <1>2, <1>3
  <2>3. Replies' \subseteq Replies
    BY <1>2, <2>1
  <2>4. Replies \subseteq Replies'
    BY <2>2 DEF Replies, L
  <2> QED
    BY <2>3, <2>4
<1>8. ASSUME RepliesInOrder PROVE RepliesInOrder'
  <2> SUFFICES ASSUME NEW i \in 1..Len(q), NEW j \in 1..Len(q), i < j,
                      q[i].what # "message", q[j].what # "message"
               PROVE  q[i].call < q[j].call
    BY <1>2
  <2>1. i \in 1..L /\ j \in 1..L /\ q[i] = toClient[i] /\ q[j] = toClient[j]
    BY <1>1, <1>6
  <2> QED
    BY <1>8, <2>1 DEF RepliesInOrder, L
<1>9. ASSUME NEW kind, NEW name
      PROVE  /\ Carried(kind, name) \subseteq 1..L /\ Carried(kind, name) \subseteq Carried(kind, name)'
             /\ \A i \in Carried(kind, name)' :
                   \/ i \in Carried(kind, name) /\ q[i] = toClient[i]
                   \/ i \in (L + 1)..Len(q) /\ q[i] = Message(kind, name, m) /\ SentFor(c, kind, name)
  <2>1. Carried(kind, name)' =
            {j \in 1..Len(q) : q[j].what = "message" /\ q[j].kind = kind /\ q[j].name = name}
    BY <1>2
  <2>2. Carried(kind, name) =
            {j \in 1..L : /\ toClient[j].what = "message" /\ toClient[j].kind = kind
                         /\ toClient[j].name = name}
    BY DEF Carried, L
  <2>3. ASSUME NEW i \in Carried(kind, name)'
        PROVE  \/ i \in Carried(kind, name) /\ q[i] = toClient[i]
               \/ i \in (L + 1)..Len(q) /\ q[i] = Message(kind, name, m) /\ SentFor(c, kind, name)
    <3>1. i \in 1..Len(q) /\ q[i].what = "message" /\ q[i].kind = kind /\ q[i].name = name
      BY <2>1
    <3>2. CASE i \in 1..L
      BY <1>1, <2>2, <3>1, <3>2
    <3>3. CASE i \in (L + 1)..Len(q)
      BY <1>5, <3>1, <3>3
    <3> QED
      BY <1>3, <3>1, <3>2, <3>3
  <2> QED
    BY <1>1, <1>3, <2>1, <2>2, <2>3
<1>10. ASSUME NEW kind \in Kind, NEW name \in Names
       PROVE  InTransit(kind, name)' = IF SentFor(c, kind, name) THEN InTransit(kind, name) \cup {m}
                                       ELSE InTransit(kind, name)
  <2>1. /\ InTransit(kind, name) = {toClient[i].msg : i \in Carried(kind, name)}
        /\ InTransit(kind, name)' = {q[i].msg : i \in Carried(kind, name)'}
    BY <1>2, ClientTypes
  <2>2. ASSUME NEW i \in Carried(kind, name)'
        PROVE  q[i].msg \in InTransit(kind, name) \/ (q[i].msg = m /\ SentFor(c, kind, name))
    BY <1>4, <1>9, <2>1
  <2>3. ASSUME NEW i \in Carried(kind, name) PROVE toClient[i].msg \in InTransit(kind, name)'
    <3>1. i \in Carried(kind, name)' /\ q[i] = toClient[i]
      BY <1>1, <1>9
    <3> QED
      BY <2>1, <3>1
  <2>4. ASSUME SentFor(c, kind, name) PROVE m \in InTransit(kind, name)'
    <3>1. PICK i \in (L + 1)..Len(q) : q[i] = Message(kind, name, m)
      BY <1>1, <2>4
    <3>2. Carried(kind, name)' =
            {j \in 1..Len(q) : q[j].what = "message" /\ q[j].kind = kind /\ q[j].name = name}
      BY <1>2
    <3>3. i \in Carried(kind, name)' /\ q[i].msg = m
      BY <1>3, <1>4, <3>1, <3>2
    <3> QED
      BY <2>1, <3>3
  <2>5. InTransit(kind, name) \subseteq InTransit(kind, name)'
    BY <2>1, <2>3
  <2>6. \A x \in InTransit(kind, name)' :
           x \in InTransit(kind, name) \/ (x = m /\ SentFor(c, kind, name))
    BY <2>1, <2>2
  <2> QED
    BY <2>4, <2>5, <2>6
<1>11. ASSUME MessagesInOrder PROVE MessagesInOrder'
  <2> SUFFICES ASSUME NEW kind \in Kind, NEW name \in Names, NEW i \in Carried(kind, name)',
                      NEW j \in Carried(kind, name)', i < j
               PROVE  q[i].msg < q[j].msg
    BY <1>2
  <2>1. CASE i \in Carried(kind, name) /\ j \in Carried(kind, name)
    BY <1>1, <1>9, <1>11, <2>1 DEF MessagesInOrder
  <2>2. CASE i \in Carried(kind, name) /\ j \notin Carried(kind, name)
    <3>1. q[j].msg = m
      BY <1>4, <1>9, <2>2
    <3>2. q[i] = toClient[i] /\ toClient[i].msg \in 1..published
      BY <1>1, <1>9, <2>2, ClientTypes DEF Carried
    <3> QED
      BY <1>1, <3>1, <3>2 DEF m
  <2>3. CASE i \notin Carried(kind, name)
    <3>1. i \in (L + 1)..Len(q) /\ q[i] = Message(kind, name, m)
      BY <1>9, <2>3
    <3>2. j \in (L + 1)..Len(q) /\ q[j] = Message(kind, name, m)
      BY <1>3, <1>9, <3>1
    <3>3. i = j
      BY <1>1, <3>1, <3>2
    <3> QED
      BY <1>1, <3>1, <3>3
  <2> QED
    BY <2>1, <2>2, <2>3
<1>12. \A i \in 1..Len(q) : \/ \E j \in 1..L : q[i] = toClient[j]
                            \/ \E kind \in Kind, name \in Names :
                                  SentFor(c, kind, name) /\ q[i] = Message(kind, name, m)
  BY <1>1, <1>3
<1> QED
  BY <1>7, <1>8, <1>10, <1>11, <1>12 DEF q, L, m

-----------------------------------------------------------------------------
(***************************************************************************)
(* Replies and reply handlers                                              *)
(***************************************************************************)

\* The calls whose reply is on its way or still to be made.
Awaited == Replies \cup Range(toServer)

EndedInv ==
    /\ ~Open => /\ handlers = <<>> /\ Sends = {} /\ toServer = <<>> /\ toClient = <<>>
                /\ ~link /\ ~reading
    /\ ~link => toServer = <<>> /\ subs = {}

OrderInv ==
    /\ Increasing(handlers) /\ Increasing(toServer) /\ SendsInOrder /\ RepliesInOrder
    /\ Before(Range(handlers), Sends) /\ Before(Awaited, Sends)
    /\ Before(Replies, Range(toServer))

ConnInv ==
    /\ Len(calls) <= MaxCalls
    /\ \A n \in 1..Len(calls) : calls[n].conn <= connects
    /\ \A n \in Range(handlers) \cup Sends : calls[n].conn = connects /\ answered[n] = 0
    /\ \A n \in Range(toServer) : calls[n].conn = connects
    /\ \A n \in Call : n > Len(calls) => answered[n] = 0

\* The client is Connected until its first subscribe of the connection; unless
\* that was mixed, the plain commands were answered by then.
ModeInv ==
    /\ state = "Connected" =>
          /\ subs = {} /\ \A i \in 1..Len(toClient) : toClient[i].what # "message"
          /\ \A n \in 1..Len(calls) : calls[n].conn = connects => calls[n].verb # "subscribe"
    /\ state = "Subscribed" /\ ~mixed =>
          \A n \in 1..Len(calls) :
             calls[n].verb = "plain" /\ calls[n].conn = connects => answered[n] # 0

\* The oldest handlers are those whose reply is awaited, all of them while the
\* connection stands.
MatchInv ==
    ~mixed => /\ Awaited \subseteq Range(handlers)
              /\ Before(Awaited, Range(handlers) \ Awaited)
              /\ link => Awaited = Range(handlers)

PairInv == TypeInv /\ EndedInv /\ OrderInv /\ ConnInv /\ ModeInv /\ MatchInv

LEMMA PairTypes ==
    ASSUME TypeInv
    PROVE  /\ Len(calls) \in Nat /\ connects \in Nat /\ 1..Len(calls) \subseteq Nat
           /\ handlers \in Seq(1..Len(calls)) /\ toServer \in Seq(1..Len(calls))
           /\ Range(handlers) \subseteq 1..Len(calls) /\ Range(toServer) \subseteq 1..Len(calls)
           /\ Sends \subseteq 1..Len(calls) /\ Replies \subseteq 1..Len(calls)
           /\ \A n \in 1..Len(calls) : calls[n].conn \in Nat
<1>1. /\ Len(calls) \in Nat /\ connects \in Nat
      /\ handlers \in Seq(1..Len(calls)) /\ toServer \in Seq(1..Len(calls))
      /\ \A n \in 1..Len(calls) : calls[n].conn \in Nat
  BY Shapes, BoundsAssumption DEF TypeInv, TypeOK, CallInfo
<1>2. Range(handlers) \subseteq 1..Len(calls) /\ Range(toServer) \subseteq 1..Len(calls)
  BY <1>1, RangeIs
<1>3. Sends \subseteq 1..Len(calls) /\ Replies \subseteq 1..Len(calls)
  BY StrandTypes, ClientTypes
<1>4. 1..Len(calls) \subseteq Nat
  BY <1>1
<1> QED
  BY <1>1, <1>2, <1>3, <1>4

LEMMA Within ==
    ASSUME TypeInv, ConnInv
    PROVE  \A n \in 1..Len(calls) : n \in Call
BY PairTypes, BoundsAssumption DEF ConnInv, Call

LEMMA EmptyRange == Range(<<>>) = {} /\ Increasing(<<>>) /\ Len(<<>>) = 0
<1>1. Len(<<>>) = 0 /\ DOMAIN <<>> = {}
  BY EmptySeq
<1> QED
  BY <1>1 DEF Range, Increasing

\* Nothing is awaited: at the start, and without a connection.
Idle == handlers = <<>> /\ toServer = <<>> /\ toClient = <<>> /\ Sends = {}

LEMMA Nothing ==
    Idle => OrderInv /\ MatchInv /\ Range(handlers) = {} /\ Range(toServer) = {}
<1> SUFFICES ASSUME Idle
             PROVE  OrderInv /\ MatchInv /\ Range(handlers) = {} /\ Range(toServer) = {}
  OBVIOUS
<1>0. handlers = <<>> /\ toServer = <<>> /\ toClient = <<>> /\ Sends = {}
  BY DEF Idle
<1>1. Len(toClient) = 0 /\ Range(handlers) = {} /\ Range(toServer) = {}
      /\ Increasing(handlers) /\ Increasing(toServer)
  BY <1>0, EmptyRange
<1>2. Replies = {} /\ RepliesInOrder
  BY <1>1 DEF Replies, RepliesInOrder
<1>3. SendsInOrder
  BY <1>0 DEF Sends, SendsInOrder
<1> QED
  BY <1>0, <1>1, <1>2, <1>3 DEF OrderInv, MatchInv, Awaited, Before

LEMMA NothingAfter ==
    ASSUME Idle'
    PROVE  OrderInv' /\ MatchInv' /\ Range(handlers)' = {} /\ Range(toServer)' = {}
<1>1. Idle' => OrderInv' /\ MatchInv'
  BY Nothing, PTL
<1>2. handlers' = <<>> /\ toServer' = <<>>
  BY DEF Idle
<1>3. Range(handlers)' = {} /\ Range(toServer)' = {}
  BY <1>2, EmptyRange
<1> QED
  BY <1>1, <1>3

LEMMA PairInit == Init => PairInv
<1> SUFFICES ASSUME Init PROVE PairInv
  OBVIOUS
<1>1. TypeInv
  BY TypeInit
<1>2. Len(strandQ) = 0 /\ Len(calls) = 0
  BY EmptySeq DEF Init
<1>3. Sends = {}
  BY <1>2 DEF Sends
<1>4. /\ OrderInv /\ MatchInv /\ Range(handlers) = {} /\ Range(toServer) = {}
  BY <1>3, Nothing DEF Init, Idle
<1>5. EndedInv
  BY <1>3 DEF EndedInv, Open, Init
<1>6. ConnInv
  BY <1>2, <1>3, <1>4, BoundsAssumption DEF ConnInv, Init
<1>7. ModeInv
  BY DEF ModeInv, Init
<1> QED
  BY <1>1, <1>4, <1>5, <1>6, <1>7 DEF PairInv

LEMMA PairConnect == ASSUME PairInv, connect PROVE PairInv'
<1>1. TypeInv' /\ TypeInv
  BY TypeConnect DEF PairInv
<1>2. ~Open
  BY DEF connect, Open
<1>3. handlers = <<>> /\ Sends = {} /\ toServer = <<>> /\ toClient = <<>> /\ ~link /\ subs = {}
  BY <1>2 DEF PairInv, EndedInv
<1>4. Sends' = {} /\ handlers' = <<>> /\ toServer' = <<>> /\ toClient' = <<>> /\ subs' = {}
  BY <1>3 DEF connect, Sends
<1>5. /\ OrderInv' /\ MatchInv' /\ Range(handlers)' = {} /\ Range(toServer)' = {}
      /\ \A i \in 1..Len(toClient') : toClient'[i].what # "message"
  BY <1>4, NothingAfter, EmptyRange DEF Idle
<1>6. state' = "Connected" /\ link' = TRUE /\ connects' = connects + 1 /\ UNCHANGED <<calls, answered>>
  BY DEF connect
<1>7. EndedInv'
  BY <1>6 DEF EndedInv, Open
<1>8. \A n \in 1..Len(calls) : calls[n].conn < connects + 1 /\ calls[n].conn <= connects + 1
  <2>1. \A n \in 1..Len(calls) : calls[n].conn \in Nat /\ connects \in Nat
    BY <1>1, PairTypes
  <2>2. \A n \in 1..Len(calls) : calls[n].conn <= connects
    BY DEF PairInv, ConnInv
  <2> QED
    BY <2>1, <2>2
<1>9. ConnInv'
  BY <1>1, <1>4, <1>5, <1>6, <1>8, PairTypes DEF ConnInv, PairInv
<1>10. ModeInv'
  BY <1>1, <1>4, <1>5, <1>6, <1>8, PairTypes DEF ModeInv
<1> QED
  BY <1>1, <1>5, <1>7, <1>9, <1>10 DEF PairInv

LEMMA PairClose == ASSUME PairInv, close PROVE PairInv'
<1>1. TypeInv' /\ TypeInv
  BY TypeClose DEF PairInv
<1>2. /\ handlers' = <<>> /\ toServer' = <<>> /\ toClient' = <<>> /\ subs' = {}
      /\ state' = "Closed" /\ link' = FALSE /\ reading' = FALSE
      /\ UNCHANGED <<strandQ, calls, answered, connects>>
  BY DEF close, ClearHandlers, history
<1>3. Sends' = {}
  BY <1>2 DEF close, NothingToSend, Sends
<1>4. OrderInv' /\ MatchInv' /\ Range(handlers)' = {} /\ Range(toServer)' = {}
  BY <1>2, <1>3, NothingAfter DEF Idle
<1>5. EndedInv' /\ ModeInv'
  BY <1>2, <1>3 DEF EndedInv, ModeInv
<1>6. ConnInv'
  BY <1>2, <1>3, <1>4 DEF ConnInv, PairInv
<1> QED
  BY <1>1, <1>4, <1>5, <1>6 DEF PairInv

\* A command is posted.
LEMMA PairIssue ==
    ASSUME PairInv, Open, TypeInv', Open',
           NEW verb, NEW kind, NEW name, NEW once, Issue(verb, kind, name, once),
           UNCHANGED <<handlers, link, reading, toServer, toClient, subs, answered, connects>>,
           mixed => mixed',
           state' = "Connected" => state = "Connected" /\ verb # "subscribe",
           state' = "Subscribed" /\ ~mixed' =>
              /\ verb # "plain"
              /\ \A n \in 1..Len(calls) :
                    calls[n].verb = "plain" /\ calls[n].conn = connects => answered[n] # 0
    PROVE  PairInv'
<1> DEFINE N == Len(calls) + 1
<1>1. /\ Sends' = Sends \cup {N} /\ (SendsInOrder => SendsInOrder')
  BY StrandIssue DEF PairInv
<1>2. /\ TypeInv /\ Len(calls) \in Nat /\ connects \in Nat /\ N \in Nat
      /\ Range(handlers) \subseteq 1..Len(calls) /\ Range(toServer) \subseteq 1..Len(calls)
      /\ Sends \subseteq 1..Len(calls) /\ Replies \subseteq 1..Len(calls)
      /\ \A n \in 1..Len(calls) : n < N /\ n \in Call
  BY PairTypes, Within DEF PairInv
<1>3. /\ Len(calls') = N /\ \A n \in 1..Len(calls) : calls'[n] = calls[n]
      /\ calls'[N].verb = verb /\ calls'[N].conn = connects /\ N \in Call /\ N <= MaxCalls
  <2>1. /\ calls \in Seq(CallInfo) /\ calls' \in Seq(CallInfo) /\ Len(calls) < MaxCalls
        /\ calls' = Append(calls, [verb |-> verb, kind |-> kind, name |-> name,
                                   once |-> once, conn |-> connects])
    BY DEF TypeInv, TypeOK, PairInv, Issue
  <2>2. /\ Len(calls') = N /\ \A n \in 1..Len(calls) : calls'[n] = calls[n]
        /\ calls'[N] = [verb |-> verb, kind |-> kind, name |-> name,
                        once |-> once, conn |-> connects]
    BY <2>1, AppendProperties
  <2> QED
    BY <1>2, <2>1, <2>2, BoundsAssumption DEF Call
<1>4. /\ Range(handlers)' = Range(handlers) /\ Range(toServer)' = Range(toServer)
      /\ Increasing(handlers)' = Increasing(handlers) /\ Increasing(toServer)' = Increasing(toServer)
      /\ Replies' = Replies /\ RepliesInOrder' = RepliesInOrder /\ Awaited' = Awaited
  BY DEF Range, Increasing, Replies, RepliesInOrder, Awaited
<1> HIDE DEF N
<1>5. OrderInv'
  <2>1. Before(Range(handlers), Sends') /\ Before(Awaited, Sends')
    BY <1>1, <1>2 DEF PairInv, OrderInv, Before, Awaited
  <2>2. Before(Range(handlers), Sends)' /\ Before(Awaited, Sends)' /\ Before(Replies, Range(toServer))'
    BY <1>4, <2>1 DEF PairInv, OrderInv, Before
  <2> QED
    BY <1>1, <1>4, <2>2 DEF PairInv, OrderInv
<1>6. EndedInv'
  BY DEF PairInv, EndedInv
<1>7. MatchInv'
  BY <1>4 DEF PairInv, MatchInv, Before
<1>8. \A n \in 1..Len(calls') : n \in 1..Len(calls) \/ n = N
  BY <1>2, <1>3 DEF N
<1>9. ConnInv'
  <2>1. \A n \in 1..Len(calls') : calls'[n].conn <= connects'
    BY <1>2, <1>3, <1>8 DEF PairInv, ConnInv
  <2>2. \A n \in Range(handlers)' \cup Sends' : calls'[n].conn = connects' /\ answered'[n] = 0
    <3>1. answered[N] = 0
      BY <1>2, <1>3 DEF PairInv, ConnInv, N
    <3> QED
      BY <1>1, <1>2, <1>3, <1>4, <3>1 DEF PairInv, ConnInv
  <2>3. \A n \in Range(toServer)' : calls'[n].conn = connects'
    BY <1>2, <1>3, <1>4 DEF PairInv, ConnInv
  <2>4. \A n \in Call : n > Len(calls') => answered'[n] = 0
    BY <1>2, <1>3 DEF PairInv, ConnInv, N, Call
  <2> QED
    BY <1>3, <2>1, <2>2, <2>3, <2>4 DEF ConnInv
<1>10. ModeInv'
  <2>1. ASSUME state' = "Connected"
        PROVE  /\ subs' = {} /\ \A i \in 1..Len(toClient') : toClient'[i].what # "message"
               /\ \A n \in 1..Len(calls') : calls'[n].conn = connects' => calls'[n].verb # "subscribe"
    BY <1>3, <1>8, <2>1 DEF PairInv, ModeInv
  <2>2. ASSUME state' = "Subscribed", ~mixed', NEW n \in 1..Len(calls'),
               calls'[n].verb = "plain", calls'[n].conn = connects'
        PROVE  answered'[n] # 0
    BY <1>3, <1>8, <2>2
  <2> QED
    BY <2>1, <2>2 DEF ModeInv
<1> QED
  BY <1>5, <1>6, <1>7, <1>9, <1>10 DEF PairInv

LEMMA PairCommand == ASSUME PairInv, command PROVE PairInv'
<1>1. TypeInv'
  BY TypeCommand DEF PairInv
<1>2. /\ Open /\ Open' /\ state' = "Connected" /\ state = "Connected"
      /\ Issue("plain", "channel", Star, FALSE)
      /\ UNCHANGED <<handlers, link, reading, toServer, toClient, subs, answered, connects, mixed>>
  BY DEF command, Open, client, network, history
<1> QED
  BY <1>1, <1>2, PairIssue

LEMMA PairSubscribing ==
    ASSUME PairInv, TypeInv', NEW kind, NEW name, NEW once,
           Issue("subscribe", kind, name, once), Subscribing(kind, name)
    PROVE  PairInv'
<1>1. /\ Open /\ Open' /\ state' = "Subscribed"
      /\ UNCHANGED <<handlers, link, reading, toServer, toClient, subs, answered, connects>>
      /\ mixed => mixed'
      /\ ~mixed' => \A n \in 1..Len(calls) :
                       calls[n].verb = "plain" /\ calls[n].conn = connects => answered[n] # 0
  BY DEF Subscribing, Open, network
<1> QED
  BY <1>1, PairIssue

LEMMA PairUnsubscribe ==
    ASSUME PairInv, NEW k \in 1..Len(calls), unsubscribe(k)
    PROVE  PairInv'
<1>1. TypeInv'
  BY TypeUnsubscribe DEF PairInv
<1>2. /\ Open /\ Open' /\ state' = state /\ mixed' = mixed
      /\ Issue("unsubscribe", calls[k].kind, calls[k].name, FALSE)
      /\ UNCHANGED <<handlers, link, reading, toServer, toClient, subs, answered, connects>>
  BY DEF unsubscribe, Open, network
<1>3. state' = "Subscribed" /\ ~mixed' =>
         \A n \in 1..Len(calls) :
            calls[n].verb = "plain" /\ calls[n].conn = connects => answered[n] # 0
  BY <1>2 DEF PairInv, ModeInv
<1> QED
  BY <1>1, <1>2, <1>3, PairIssue

LEMMA PairDoAsyncCommand == ASSUME PairInv, doAsyncCommand PROVE PairInv'
<1> DEFINE n == Head(strandQ).call
<1>1. /\ TypeInv' /\ TypeInv /\ EndedInv /\ OrderInv /\ ConnInv /\ ModeInv /\ MatchInv
  BY TypeDoAsyncCommand DEF PairInv
<1>2. /\ strandQ # <<>> /\ Head(strandQ).op = "send" /\ strandQ' = Tail(strandQ)
      /\ handlers' = Append(handlers, n)
      /\ toServer' = IF link THEN Append(toServer, n) ELSE toServer
      /\ UNCHANGED <<state, link, reading, toClient, subs, calls, answered, mixed, connects>>
  BY DEF doAsyncCommand, history
<1>3. SendsInOrder' /\ n \in Sends /\ Sends' = Sends \ {n} /\ Before({n}, Sends')
  BY <1>1, <1>2, StrandTail DEF OrderInv
<1>4. /\ handlers \in Seq(1..Len(calls)) /\ toServer \in Seq(1..Len(calls))
      /\ 1..Len(calls) \subseteq Nat /\ n \in 1..Len(calls)
  BY <1>1, <1>3, PairTypes
<1> HIDE DEF n
<1>5. /\ Range(handlers)' = Range(handlers) \cup {n}
      /\ Range(toServer)' = IF link THEN Range(toServer) \cup {n} ELSE Range(toServer)
  <2>1. Range(Append(handlers, n)) = Range(handlers) \cup {n}
    BY <1>4, RangeAppend
  <2>2. Range(Append(toServer, n)) = Range(toServer) \cup {n}
    BY <1>4, RangeAppend
  <2> QED
    BY <1>2, <2>1, <2>2
<1>6. Replies' = Replies /\ RepliesInOrder'
  BY <1>1, <1>2 DEF Replies, RepliesInOrder, OrderInv
<1>7. Before(Range(handlers), {n}) /\ Before(Awaited, {n})
  BY <1>1, <1>3 DEF OrderInv, Before
<1>8. Awaited' = IF link THEN Awaited \cup {n} ELSE Awaited
  BY <1>5, <1>6 DEF Awaited
<1>9. OrderInv'
  <2>1. Increasing(handlers)'
    <3>1. Increasing(Append(handlers, n))
      BY <1>1, <1>4, <1>7, IncreasingAppend DEF OrderInv
    <3> QED
      BY <1>2, <3>1 DEF Increasing
  <2>2. Increasing(toServer)'
    <3>1. Increasing(Append(toServer, n))
      BY <1>1, <1>4, <1>7, IncreasingAppend DEF OrderInv, Awaited, Before
    <3>2. Increasing(toServer)
      BY <1>1 DEF OrderInv
    <3> QED
      BY <1>2, <3>1, <3>2 DEF Increasing
  <2>3. Before(Range(handlers)', Sends') /\ Before(Awaited', Sends')
    BY <1>1, <1>3, <1>5, <1>8 DEF OrderInv, Before
  <2>4. Before(Replies', Range(toServer)')
    BY <1>1, <1>5, <1>6, <1>7 DEF OrderInv, Before, Awaited
  <2> QED
    BY <1>3, <1>6, <2>1, <2>2, <2>3, <2>4 DEF OrderInv, Before
<1>10. EndedInv'
  BY <1>1, <1>2, <1>3 DEF EndedInv, Open
<1>11. ConnInv'
  <2>1. \A k \in Range(handlers)' \cup Sends' : calls[k].conn = connects /\ answered[k] = 0
    BY <1>1, <1>3, <1>5 DEF ConnInv
  <2>2. \A k \in Range(toServer)' : calls[k].conn = connects
    BY <1>1, <1>3, <1>5 DEF ConnInv
  <2> QED
    BY <1>1, <1>2, <2>1, <2>2 DEF ConnInv
<1>12. ModeInv'
  BY <1>1, <1>2 DEF ModeInv
<1>13. MatchInv'
  <2> SUFFICES ASSUME ~mixed
               PROVE  /\ Awaited' \subseteq Range(handlers)'
                      /\ Before(Awaited', Range(handlers)' \ Awaited')
                      /\ link => Awaited' = Range(handlers)'
    BY <1>2 DEF MatchInv, Before
  <2>1. /\ Awaited \subseteq Range(handlers)
        /\ Before(Awaited, Range(handlers) \ Awaited)
        /\ link => Awaited = Range(handlers)
    BY <1>1 DEF MatchInv
  <2> QED
    BY <1>5, <1>7, <1>8, <2>1 DEF Before
<1> QED
  BY <1>1, <1>9, <1>10, <1>11, <1>12, <1>13 DEF PairInv

\* Steps that leave the commands and the handlers alone.
LEMMA PairSame ==
    ASSUME PairInv, TypeInv', Sends' = Sends, SendsInOrder',
           Replies' = Replies, RepliesInOrder', ~Open => toClient' = <<>>,
           \A i \in 1..Len(toClient') :
              toClient'[i].what = "message" /\ state = "Connected" => FALSE,
           UNCHANGED <<state, handlers, link, toServer, subs, calls, answered, mixed, connects>>,
           reading' => reading
    PROVE  PairInv'
<1>1. Awaited' = Awaited /\ Range(handlers)' = Range(handlers) /\ Range(toServer)' = Range(toServer)
      /\ Increasing(handlers)' = Increasing(handlers) /\ Increasing(toServer)' = Increasing(toServer)
  BY DEF Awaited, Range, Increasing
<1>2. /\ EndedInv /\ OrderInv /\ ConnInv /\ ModeInv /\ MatchInv
  BY DEF PairInv
<1>3. OrderInv'
  BY <1>1, <1>2 DEF OrderInv, Before
<1>4. EndedInv'
  BY <1>2 DEF EndedInv, Open
<1>5. ConnInv'
  BY <1>1, <1>2 DEF ConnInv
<1>6. ModeInv'
  BY <1>2 DEF ModeInv
<1>7. MatchInv'
  BY <1>1, <1>2 DEF MatchInv, Before
<1> QED
  BY <1>3, <1>4, <1>5, <1>6, <1>7 DEF PairInv

LEMMA PairCallMessageHandler == ASSUME PairInv, CallMessageHandler PROVE PairInv'
<1>1. TypeInv' /\ TypeInv /\ SendsInOrder
  BY TypeCallMessageHandler DEF PairInv, OrderInv
<1>2. /\ strandQ # <<>> /\ Head(strandQ).op = "deliver" /\ strandQ' = Tail(strandQ)
      /\ UNCHANGED <<state, handlers, link, reading, toServer, toClient, subs, calls, answered,
                     mixed, connects>>
  BY DEF CallMessageHandler, client, network
<1>3. Sends' = Sends /\ SendsInOrder'
  BY <1>1, <1>2, StrandTail
<1>4. Replies' = Replies /\ RepliesInOrder'
  BY <1>2 DEF Replies, RepliesInOrder, PairInv, OrderInv
<1>5. /\ ~Open => toClient' = <<>>
      /\ \A i \in 1..Len(toClient') :
            toClient'[i].what = "message" /\ state = "Connected" => FALSE
  BY <1>2 DEF PairInv, EndedInv, ModeInv
<1> QED
  BY <1>1, <1>2, <1>3, <1>4, <1>5, PairSame

LEMMA PairReadFails == ASSUME PairInv, ReadFails PROVE PairInv'
<1>1. TypeInv'
  BY TypeReadFails DEF PairInv
<1>2. /\ reading' = FALSE
      /\ UNCHANGED <<strandQ, state, handlers, link, toServer, toClient, subs, calls, answered,
                     mixed, connects>>
  BY DEF ReadFails, client, history
<1>3. Sends' = Sends /\ SendsInOrder'
  BY <1>2 DEF Sends, SendsInOrder, PairInv, OrderInv
<1>4. Replies' = Replies /\ RepliesInOrder'
  BY <1>2 DEF Replies, RepliesInOrder, PairInv, OrderInv
<1>5. /\ ~Open => toClient' = <<>>
      /\ \A i \in 1..Len(toClient') :
            toClient'[i].what = "message" /\ state = "Connected" => FALSE
  BY <1>2 DEF PairInv, EndedInv, ModeInv
<1> QED
  BY <1>1, <1>2, <1>3, <1>4, <1>5, PairSame

LEMMA PairPublish == ASSUME PairInv, NEW c \in Channels, Publish(c) PROVE PairInv'
<1>1. TypeInv' /\ TypeInv
  BY TypePublish DEF PairInv
<1>2. UNCHANGED <<strandQ, state, handlers, link, reading, toServer, subs, calls, answered,
                  mixed, connects>>
  BY DEF Publish, client
<1>3. Sends' = Sends /\ SendsInOrder'
  BY <1>2 DEF Sends, SendsInOrder, PairInv, OrderInv
<1>4. /\ Replies' = Replies /\ RepliesInOrder'
      /\ \A i \in 1..Len(toClient') :
            \/ \E j \in 1..Len(toClient) : toClient'[i] = toClient[j]
            \/ \E kind \in Kind, name \in Names :
                  SentFor(c, kind, name) /\ toClient'[i] = Message(kind, name, published + 1)
  BY <1>1, ClientPublish DEF PairInv, OrderInv
<1>5. subs = {} => ~ \E kind, name : SentFor(c, kind, name)
  BY DEF SentFor
<1>6. \A i \in 1..Len(toClient') : toClient'[i].what = "message" /\ state = "Connected" => FALSE
  BY <1>4, <1>5 DEF PairInv, ModeInv
<1>7. ASSUME ~Open PROVE toClient' = <<>>
  <2>1. subs = {} /\ Len(toClient) = 0 /\ 1..0 = {}
    BY <1>7, EmptySeq DEF PairInv, EndedInv
  <2>2. toClient' \in Seq(Served') /\ Len(toClient') \in Nat
    BY <1>1, Published
  <2>3. ~ \E i \in 1..Len(toClient') : TRUE
    BY <1>4, <1>5, <2>1
  <2>4. Len(toClient') = 0
    BY <2>2, <2>3
  <2> QED
    BY <2>2, <2>4, EmptyIffLen0
<1> QED
  BY <1>1, <1>2, <1>3, <1>4, <1>6, <1>7, PairSame

LEMMA PairBreak == ASSUME PairInv, Break PROVE PairInv'
<1>1. /\ TypeInv' /\ TypeInv /\ EndedInv /\ OrderInv /\ ConnInv /\ ModeInv /\ MatchInv
  BY TypeBreak DEF PairInv
<1>2. /\ link' = FALSE /\ toServer' = <<>> /\ subs' = {} /\ toClient' \in {toClient, <<>>} /\ link
      /\ UNCHANGED <<strandQ, state, handlers, reading, calls, answered, mixed, connects>>
  BY DEF Break, client, history
<1>3. Sends' = Sends /\ SendsInOrder' /\ Range(handlers)' = Range(handlers)
      /\ Increasing(handlers)' /\ Range(toServer)' = {} /\ Increasing(toServer)'
  BY <1>1, <1>2, EmptyRange DEF Sends, SendsInOrder, OrderInv, Range, Increasing
<1>4. (Replies' = Replies \/ Replies' = {}) /\ RepliesInOrder'
  <2>1. CASE toClient' = toClient
    BY <1>1, <2>1 DEF Replies, RepliesInOrder, OrderInv
  <2>2. CASE toClient' = <<>>
    BY <2>2, ClientEmpty
  <2> QED
    BY <1>2, <2>1, <2>2
<1>5. Awaited' \subseteq Replies /\ (Awaited' = Replies \/ Awaited' = {})
  BY <1>3, <1>4 DEF Awaited
<1>6. OrderInv'
  BY <1>1, <1>3, <1>4, <1>5 DEF OrderInv, Before, Awaited
<1>7. EndedInv'
  BY <1>1, <1>2 DEF EndedInv, Open
<1>8. ConnInv'
  BY <1>1, <1>2, <1>3 DEF ConnInv
<1>9. ModeInv'
  <2>1. Len(<<>>) = 0 /\ 1..0 = {}
    BY EmptySeq
  <2> QED
    BY <1>1, <1>2, <2>1 DEF ModeInv
<1>10. MatchInv'
  <2> SUFFICES ASSUME ~mixed
               PROVE  /\ Awaited' \subseteq Range(handlers)
                      /\ Before(Awaited', Range(handlers) \ Awaited')
    BY <1>2, <1>3 DEF MatchInv, Before
  <2>1. Awaited \subseteq Range(handlers) /\ Before(Awaited, Range(handlers) \ Awaited)
    BY <1>1 DEF MatchInv
  <2>2. Before(Replies, Range(toServer)) /\ Replies \subseteq Awaited
    BY <1>1 DEF OrderInv, Awaited
  <2>3. Before(Replies, Range(handlers) \ Replies)
    BY <2>1, <2>2 DEF Before, Awaited
  <2> QED
    BY <1>5, <2>1, <2>2, <2>3 DEF Before
<1> QED
  BY <1>1, <1>6, <1>7, <1>8, <1>9, <1>10 DEF PairInv

LEMMA PairExecute == ASSUME PairInv, Execute PROVE PairInv'
<1> DEFINE n == Head(toServer)
<1>1. /\ TypeInv' /\ TypeInv /\ EndedInv /\ OrderInv /\ ConnInv /\ ModeInv /\ MatchInv
  BY TypeExecute DEF PairInv
<1>2. /\ toServer # <<>> /\ toServer' = Tail(toServer) /\ toClient' = Append(toClient, Reply(n))
      /\ calls[n].verb # "subscribe" => subs' \subseteq subs
      /\ UNCHANGED <<strandQ, state, handlers, link, reading, calls, answered, mixed, connects>>
  <2>1. subs' = CASE calls[n].verb = "subscribe"   -> subs \cup {<<calls[n].kind, calls[n].name>>}
                  [] calls[n].verb = "unsubscribe" -> subs \ {<<calls[n].kind, calls[n].name>>}
                  [] OTHER                         -> subs
    BY DEF Execute
  <2>2. calls[n].verb # "subscribe" => subs' \subseteq subs
    BY <2>1
  <2> QED
    BY <2>2 DEF Execute, client, history
<1>3. /\ n \in 1..Len(calls) /\ 1..Len(calls) \subseteq Nat /\ toServer \in Seq(1..Len(calls))
      /\ Len(toClient) \in Nat
  BY <1>1, <1>2, NextCommand, PairTypes
<1>4. /\ Increasing(toServer)' /\ Before({n}, Range(toServer)')
      /\ Range(toServer)' = Range(toServer) \ {n} /\ n \in Range(toServer)
  <2>1. Increasing(toServer)
    BY <1>1 DEF OrderInv
  <2>2. /\ Increasing(Tail(toServer)) /\ Before({n}, Range(Tail(toServer)))
        /\ Range(Tail(toServer)) = Range(toServer) \ {n}
    BY <1>2, <1>3, <2>1, IncreasingTail
  <2>3. n \in Range(toServer)
    BY <1>2, <1>3, RangeTail
  <2> QED
    BY <1>2, <2>2, <2>3 DEF Increasing
<1> HIDE DEF n
<1>5. /\ Replies' = Replies \cup {n}
      /\ RepliesInOrder /\ Before(Replies, {n}) => RepliesInOrder'
      /\ \A i \in 1..Len(toClient') :
            toClient'[i].what = "message" => \E j \in 1..Len(toClient) : toClient'[i] = toClient[j]
  BY <1>1, <1>2, <1>3, ClientReply
<1>6. Awaited' = Awaited /\ Sends' = Sends /\ SendsInOrder' /\ Range(handlers)' = Range(handlers)
      /\ Increasing(handlers)'
  BY <1>1, <1>2, <1>4, <1>5 DEF Awaited, Sends, SendsInOrder, OrderInv, Range, Increasing
<1>7. Before(Replies, {n})
  BY <1>1, <1>4 DEF OrderInv, Before
<1>8. OrderInv'
  <2>1. Before(Replies', Range(toServer)')
    BY <1>1, <1>4, <1>5 DEF OrderInv, Before
  <2>2. Before(Range(handlers)', Sends') /\ Before(Awaited', Sends')
    BY <1>1, <1>6 DEF OrderInv
  <2> QED
    BY <1>1, <1>4, <1>5, <1>6, <1>7, <2>1, <2>2 DEF OrderInv, Before
<1>9. EndedInv'
  BY <1>1, <1>2 DEF EndedInv, Open
<1>10. ConnInv'
  BY <1>1, <1>2, <1>4, <1>6 DEF ConnInv
<1>11. ModeInv'
  <2>1. ASSUME state = "Connected"
        PROVE  /\ subs' = {} /\ \A i \in 1..Len(toClient') : toClient'[i].what # "message"
    <3>1. calls[n].conn = connects
      BY <1>1, <1>4 DEF ConnInv
    <3>2. calls[n].verb # "subscribe"
      BY <1>1, <1>3, <2>1, <3>1 DEF ModeInv
    <3> QED
      BY <1>1, <1>2, <1>5, <2>1, <3>2 DEF ModeInv
  <2> QED
    BY <1>1, <1>2, <2>1 DEF ModeInv
<1>12. MatchInv'
  BY <1>1, <1>2, <1>6 DEF MatchInv, Before
<1> QED
  BY <1>1, <1>8, <1>9, <1>10, <1>11, <1>12 DEF PairInv

\* The next reply on a connection that is not mixed is the one the oldest reply
\* handler waits for.
LEMMA OldestHandler ==
    ASSUME PairInv, ~mixed, toClient # <<>>, Head(toClient).what # "message"
    PROVE  handlers # <<>> /\ Head(handlers) = Head(toClient).call
<1> DEFINE n == Head(toClient).call
           h == Head(handlers)
<1>1. TypeInv /\ OrderInv /\ MatchInv
  BY DEF PairInv
<1>2. PICK t \in Seq(Served) : t = Tail(toClient)
  BY <1>1, NextValue
<1>3. n \in Replies
  <2>1. Head(toClient) = toClient[1] /\ 1 \in 1..Len(toClient)
    BY <1>1, NextValue
  <2> QED
    BY <2>1 DEF Replies
<1>4. handlers \in Seq(1..Len(calls)) /\ 1..Len(calls) \subseteq Nat
      /\ Range(handlers) \subseteq 1..Len(calls)
  BY <1>1, PairTypes
<1>5. n \in Awaited /\ Awaited \subseteq Range(handlers)
  BY <1>1, <1>3 DEF MatchInv, Awaited
<1>6. handlers # <<>>
  BY <1>5, EmptyRange
<1>7. h \in Range(handlers) /\ (n = h \/ n \in Range(Tail(handlers)))
  BY <1>4, <1>5, <1>6, RangeTail
<1>8. Before({h}, Range(Tail(handlers)))
  BY <1>1, <1>4, <1>6, IncreasingTail DEF OrderInv
<1>9. \A a \in Awaited : a = n \/ n < a
  <2>1. Replies = {n} \cup (Replies \ {n}) /\ \A a \in Replies \ {n} : n < a
    <3>1. \A i \in 1..Len(toClient) : toClient[i].what # "message" =>
             toClient[i].call = n \/ n < toClient[i].call
      <4>1. Head(toClient) = toClient[1] /\ 1 \in 1..Len(toClient) /\ Len(toClient) \in Nat
        BY <1>1, NextValue
      <4>2. \A i \in 1..Len(toClient) : i = 1 \/ 1 < i
        BY <4>1
      <4> QED
        BY <1>1, <4>1, <4>2 DEF OrderInv, RepliesInOrder
    <3> QED
      BY <1>3, <3>1 DEF Replies
  <2>2. \A a \in Range(toServer) : n < a
    BY <1>1, <1>3 DEF OrderInv, Before
  <2> QED
    BY <2>1, <2>2 DEF Awaited
<1>10. ASSUME n # h PROVE FALSE
  <2>1. h < n /\ h \in Nat /\ n \in Nat
    BY <1>4, <1>5, <1>7, <1>8, <1>10 DEF Before
  <2>2. h \notin Awaited
    BY <1>9, <1>10, <2>1
  <2>3. n < h
    BY <1>1, <1>5, <1>7, <2>2 DEF MatchInv, Before
  <2> QED
    BY <2>1, <2>3
<1> QED
  BY <1>6, <1>10

\* Unless the connection is mixed, nothing is parsed that no handler waits for.
LEMMA NoProtocolError ==
    ASSUME PairInv, ~mixed, toClient # <<>>, state = "Subscribed",
           Head(toClient).what # "message"
    PROVE  IsConfirmation(Head(toClient))
<1>1. handlers # <<>> /\ Head(handlers) = Head(toClient).call
  BY OldestHandler
<1>2. /\ TypeInv /\ ConnInv /\ ModeInv
      /\ handlers \in Seq(1..Len(calls))
  BY PairTypes DEF PairInv
<1>3. Head(handlers) \in Range(handlers)
  BY <1>1, <1>2, RangeTail
<1>4. calls[Head(handlers)].conn = connects /\ answered[Head(handlers)] = 0
  BY <1>2, <1>3 DEF ConnInv
<1>5. /\ Head(toClient).what \in {"subscribe", "unsubscribe", "plain"}
      /\ Head(toClient).call \in 1..Len(calls)
      /\ Head(toClient).what = calls[Head(toClient).call].verb
  BY <1>2, NextValue
<1>6. Head(toClient).what # "plain"
  BY <1>1, <1>2, <1>4, <1>5 DEF ModeInv
<1> QED
  BY <1>5, <1>6 DEF IsConfirmation

\* Which of its branches doProcessMessage takes.
LEMMA Branches ==
    ASSUME PairInv, asyncRead
    PROVE  LET v == Head(toClient)
           IN  \/ state = "Subscribed" /\ v.what = "message" /\ ProcessMessage(v)
               \/ v.what # "message" /\ CallReplyHandler(v)
               \/ mixed /\ v.what # "message" /\ CallErrorHandler
<1> DEFINE v == Head(toClient)
<1>1. toClient # <<>> /\ reading /\ doProcessMessage(v) /\ TypeInv
  BY DEF asyncRead, PairInv
<1>2. Open
  BY <1>1 DEF PairInv, EndedInv
<1>3. state # "Subscribed" => v.what # "message"
  <2>1. v = toClient[1] /\ 1 \in 1..Len(toClient)
    BY <1>1, NextValue
  <2> QED
    BY <1>2, <2>1 DEF PairInv, ModeInv, Open
<1>4. ~mixed /\ v.what # "message" =>
         handlers # <<>> /\ (state = "Subscribed" => IsConfirmation(v))
  BY <1>1, OldestHandler, NoProtocolError
<1>5. v.what = "message" => ~IsConfirmation(v)
  BY DEF IsConfirmation
<1> HIDE DEF v
<1>6. CASE state = "Subscribed" /\ v.what = "message"
  <2>1. ProcessMessage(v)
    BY <1>1, <1>5, <1>6 DEF doProcessMessage
  <2> QED
    BY <1>6, <2>1 DEF v
<1>7. CASE state = "Subscribed" /\ v.what # "message" /\ IsConfirmation(v) /\ handlers # <<>>
  <2>1. CallReplyHandler(v)
    BY <1>1, <1>7 DEF doProcessMessage
  <2> QED
    BY <1>7, <2>1 DEF v
<1>8. CASE state = "Subscribed" /\ v.what # "message" /\ ~(IsConfirmation(v) /\ handlers # <<>>)
  <2>1. CallErrorHandler /\ mixed
    BY <1>1, <1>4, <1>8 DEF doProcessMessage, TypeInv, TypeOK
  <2> QED
    BY <1>8, <2>1 DEF v
<1>9. CASE state # "Subscribed" /\ handlers # <<>>
  <2>1. CallReplyHandler(v)
    BY <1>1, <1>9 DEF doProcessMessage
  <2> QED
    BY <1>3, <1>9, <2>1 DEF v
<1>10. CASE state # "Subscribed" /\ handlers = <<>>
  <2>1. CallErrorHandler
    BY <1>1, <1>10 DEF doProcessMessage
  <2>2. mixed
    BY <1>1, <1>3, <1>4, <1>10 DEF TypeInv, TypeOK
  <2> QED
    BY <1>3, <1>10, <2>1, <2>2 DEF v
<1> QED
  BY <1>6, <1>7, <1>8, <1>9, <1>10 DEF v

LEMMA PairAsyncRead == ASSUME PairInv, asyncRead PROVE PairInv'
<1> DEFINE v == Head(toClient)
<1>1. /\ TypeInv' /\ TypeInv /\ EndedInv /\ OrderInv /\ ConnInv /\ ModeInv /\ MatchInv
  BY TypeAsyncRead DEF PairInv
<1>2. /\ toClient # <<>> /\ reading
      /\ UNCHANGED <<state, link, toServer, subs, calls, mixed, connects>>
  BY DEF asyncRead
<1>3. Open
  BY <1>1, <1>2 DEF EndedInv
<1>4. Range(toServer)' = Range(toServer) /\ Increasing(toServer)'
  BY <1>1, <1>2 DEF Range, Increasing, OrderInv
<1>5. /\ v.what = "message" => v.name \in Names /\ v.msg \in 1..published
      /\ v.what # "message" => v.call \in 1..Len(calls)
      /\ \A i \in 1..Len(Tail(toClient)) : \E j \in 1..Len(toClient) : Tail(toClient)[i] = toClient[j]
  <2>1. /\ v.what = "message" => v.name \in Names /\ v.msg \in 1..published
        /\ v.what # "message" => v.call \in 1..Len(calls)
        /\ Len(toClient) \in Nat \ {0} /\ Len(Tail(toClient)) = Len(toClient) - 1
        /\ \A i \in 1..(Len(toClient) - 1) : Tail(toClient)[i] = toClient[i + 1]
    BY <1>1, <1>2, NextValue
  <2>2. \A i \in 1..(Len(toClient) - 1) : i + 1 \in 1..Len(toClient)
    BY <2>1
  <2> QED
    BY <2>1, <2>2
<1> HIDE DEF v
<1>6. CASE v.what = "message" /\ ProcessMessage(v)
  <2>1. /\ toClient' = Tail(toClient) /\ UNCHANGED <<reading, handlers, answered>>
    BY <1>6 DEF ProcessMessage
  <2>2. Sends' = Sends /\ SendsInOrder'
    <3>1. PICK posts \in Seq(Posting) :
             /\ strandQ' = strandQ \o posts
             /\ AllOf(posts, v)
      BY <1>1, <1>5, <1>6, GivenOut
    <3> QED
      BY <1>1, <1>5, <1>6, <3>1, StrandPosts DEF OrderInv
  <2>3. Replies' = Replies /\ RepliesInOrder'
    BY <1>1, <1>2, <1>6, <2>1, ClientTail DEF OrderInv, v
  <2>4. \A i \in 1..Len(toClient') :
           toClient'[i].what = "message" /\ state = "Connected" => FALSE
    BY <1>1, <1>5, <2>1 DEF ModeInv
  <2> QED
    BY <1>1, <1>2, <1>3, <2>1, <2>2, <2>3, <2>4, PairSame
<1>7. CASE v.what # "message" /\ CallReplyHandler(v)
  <2> DEFINE h == Head(handlers)
  <2>1. /\ handlers # <<>> /\ handlers' = Tail(handlers) /\ toClient' = Tail(toClient)
        /\ answered' = [answered EXCEPT ![h] = v.call] /\ UNCHANGED <<reading, strandQ>>
    BY <1>7 DEF CallReplyHandler
  <2>2. /\ handlers \in Seq(1..Len(calls)) /\ 1..Len(calls) \subseteq Nat
        /\ Range(handlers) \subseteq 1..Len(calls) /\ Len(calls) \in Nat
    BY <1>1, PairTypes
  <2>3. /\ Increasing(handlers)' /\ Before({h}, Range(handlers)')
        /\ Range(handlers)' = Range(handlers) \ {h} /\ h \in Range(handlers)
    <3>1. /\ Increasing(Tail(handlers)) /\ Before({h}, Range(Tail(handlers)))
          /\ Range(Tail(handlers)) = Range(handlers) \ {h}
      BY <1>1, <2>1, <2>2, IncreasingTail DEF OrderInv
    <3>2. h \in Range(handlers)
      BY <2>1, <2>2, RangeTail
    <3> QED
      BY <2>1, <3>1, <3>2 DEF Increasing
  <2>4. Sends' = Sends /\ SendsInOrder'
    BY <1>1, <2>1 DEF Sends, SendsInOrder, OrderInv
  <2>5. /\ RepliesInOrder' /\ v.call \in Replies /\ Replies' = Replies \ {v.call}
        /\ \A i \in 1..Len(toClient') : \E j \in 1..Len(toClient) : toClient'[i] = toClient[j]
    BY <1>1, <1>2, <1>7, <2>1, ClientTail DEF OrderInv, v
  <2>6. ~mixed => h = v.call
    BY <1>2, <1>7, OldestHandler DEF v
  <2> HIDE DEF h
  <2>7. Awaited' = Awaited \ {v.call}
    <3>1. v.call \notin Range(toServer)
      BY <1>1, <1>5, <1>7, <2>2, <2>5 DEF OrderInv, Before
    <3> QED
      BY <1>4, <2>5, <3>1 DEF Awaited
  <2>8. OrderInv'
    <3>1. /\ Before(Range(handlers)', Sends') /\ Before(Awaited', Sends')
          /\ Before(Replies', Range(toServer)')
      BY <1>1, <1>4, <2>3, <2>4, <2>5, <2>7 DEF OrderInv, Before
    <3> QED
      BY <1>4, <2>3, <2>4, <2>5, <3>1 DEF OrderInv, Before
  <2>9. EndedInv'
    BY <1>1, <1>2, <1>3, <2>1 DEF EndedInv, Open
  <2>10. \A k \in Call : k # h => answered'[k] = answered[k]
    BY <1>1, <2>1 DEF TypeInv, TypeOK
  <2>11. \A k \in 1..Len(calls) : k \in Call
    BY <1>1, Within
  <2>12. ConnInv'
    <3>1. \A k \in Range(handlers)' \cup Sends' : calls[k].conn = connects /\ answered'[k] = 0
      <4>1. h \notin Sends /\ Sends \subseteq 1..Len(calls)
        <5>1. Sends \subseteq 1..Len(calls)
          BY <1>1, PairTypes
        <5> QED
          BY <1>1, <2>2, <2>3, <5>1 DEF OrderInv, Before
      <4> QED
        BY <1>1, <2>2, <2>3, <2>4, <2>10, <2>11, <4>1 DEF ConnInv
    <3>2. \A k \in Call : k > Len(calls) => answered'[k] = 0
      <4>1. h \in Nat /\ h <= Len(calls)
        BY <2>2, <2>3
      <4> QED
        BY <1>1, <2>2, <2>10, <4>1 DEF ConnInv, Call
    <3> QED
      BY <1>1, <1>2, <1>4, <3>1, <3>2 DEF ConnInv
  <2>13. ModeInv'
    <3>1. \A k \in 1..Len(calls) : answered[k] # 0 => answered'[k] # 0
      <4>1. v.call # 0 /\ answered' [h] = v.call
        <5>1. h \in Call /\ v.call \in 1..Len(calls)
          BY <1>5, <1>7, <2>2, <2>3, <2>11
        <5> QED
          BY <1>1, <2>1, <2>2, <5>1 DEF TypeInv, TypeOK
      <4> QED
        BY <2>10, <2>11, <4>1
    <3> QED
      BY <1>1, <1>2, <2>5, <3>1 DEF ModeInv
  <2>14. MatchInv'
    BY <1>1, <1>2, <2>3, <2>6, <2>7 DEF MatchInv, Before
  <2> QED
    BY <1>1, <2>8, <2>9, <2>12, <2>13, <2>14 DEF PairInv
<1>8. CASE mixed /\ v.what # "message" /\ CallErrorHandler
  <2>1. /\ \/ toClient' = Tail(toClient) /\ reading' = reading
           \/ toClient' = <<>> /\ reading' = FALSE
        /\ UNCHANGED <<handlers, strandQ, answered>>
    BY <1>8 DEF CallErrorHandler
  <2>2. /\ Sends' = Sends /\ SendsInOrder' /\ Range(handlers)' = Range(handlers)
        /\ Increasing(handlers)'
    BY <1>1, <2>1 DEF Sends, SendsInOrder, OrderInv, Range, Increasing
  <2>3. /\ RepliesInOrder' /\ Replies' \subseteq Replies
        /\ \A i \in 1..Len(toClient') : \E j \in 1..Len(toClient) : toClient'[i] = toClient[j]
    <3>1. CASE toClient' = Tail(toClient)
      BY <1>1, <1>2, <1>8, <3>1, ClientTail DEF OrderInv, v
    <3>2. CASE toClient' = <<>>
      BY <3>2, ClientEmpty
    <3> QED
      BY <2>1, <3>1, <3>2
  <2>4. OrderInv'
    BY <1>1, <1>4, <2>2, <2>3 DEF OrderInv, Before, Awaited
  <2>5. EndedInv'
    BY <1>1, <1>2, <1>3, <2>1 DEF EndedInv, Open
  <2>6. ConnInv' /\ ModeInv' /\ MatchInv'
    BY <1>1, <1>2, <1>4, <1>8, <2>1, <2>2, <2>3 DEF ConnInv, ModeInv, MatchInv
  <2> QED
    BY <1>1, <2>4, <2>5, <2>6 DEF PairInv
<1> QED
  BY <1>6, <1>7, <1>8, Branches DEF v

LEMMA PairNext == ASSUME PairInv, [Next]_vars PROVE PairInv'
<1>1. CASE Application
  <2>1. ASSUME NEW kind \in Kind, NEW name \in NamesOf(kind), subscribe(kind, name)
        PROVE  PairInv'
    BY <2>1, TypeSubscribe, PairSubscribing DEF subscribe, PairInv
  <2>2. ASSUME NEW kind \in Kind, NEW name \in NamesOf(kind), singleShotSubscribe(kind, name)
        PROVE  PairInv'
    BY <2>2, TypeSingleShotSubscribe, PairSubscribing DEF singleShotSubscribe, PairInv
  <2> QED
    BY <1>1, <2>1, <2>2, PairConnect, PairClose, PairCommand, PairUnsubscribe DEF Application
<1>2. CASE Service
  BY <1>2, PairDoAsyncCommand, PairCallMessageHandler, PairAsyncRead, PairReadFails DEF Service
<1>3. CASE Network
  BY <1>3, PairExecute, PairPublish, PairBreak DEF Network
<1>4. CASE UNCHANGED vars
  <2>1. TypeInv'
    BY <1>4, TypeNext DEF PairInv
  <2>2. UNCHANGED <<state, handlers, strandQ, link, reading, toServer, toClient, subs, calls,
                    answered, mixed, connects>>
    BY <1>4 DEF vars, client, network, history
  <2>3. Sends' = Sends /\ SendsInOrder' /\ Replies' = Replies /\ RepliesInOrder'
    BY <2>2 DEF Sends, SendsInOrder, Replies, RepliesInOrder, PairInv, OrderInv
  <2>4. /\ ~Open => toClient' = <<>>
        /\ \A i \in 1..Len(toClient') :
              toClient'[i].what = "message" /\ state = "Connected" => FALSE
    BY <2>2 DEF PairInv, EndedInv, ModeInv
  <2> QED
    BY <2>1, <2>2, <2>3, <2>4, PairSame
<1> QED
  BY <1>1, <1>2, <1>3, <1>4 DEF Next

LEMMA PairAlways == Spec => []PairInv
BY PairInit, PairNext, PTL DEF Spec

\* A reply handler is called once, with the reply to its own call, whatever
\* messages come between, unless a plain command was unanswered when the client
\* became Subscribed.
THEOREM ConfirmationsPairedCorrect == Spec => ConfirmationsPaired
<1> DEFINE Paired == ~mixed' => \A n \in Call :
                        answered'[n] # answered[n] => answered[n] = 0 /\ answered'[n] = n
<1>1. ASSUME PairInv, [Next]_vars PROVE Paired
  <2>1. CASE asyncRead
    <3> SUFFICES ASSUME ~mixed', NEW n \in Call, answered'[n] # answered[n]
                 PROVE  answered[n] = 0 /\ answered'[n] = n
      OBVIOUS
    <3>1. mixed' = mixed /\ toClient # <<>>
      BY <2>1 DEF asyncRead
    <3>2. ~ProcessMessage(Head(toClient))
      BY DEF ProcessMessage
    <3>3. CallReplyHandler(Head(toClient)) /\ Head(toClient).what # "message"
      BY <1>1, <2>1, <3>1, <3>2, Branches DEF TypeInv, PairInv, TypeOK
    <3>4. /\ Head(handlers) = Head(toClient).call /\ handlers # <<>>
          /\ answered' = [answered EXCEPT ![Head(handlers)] = Head(toClient).call]
      BY <1>1, <3>1, <3>3, OldestHandler DEF CallReplyHandler
    <3>5. n = Head(handlers)
      BY <1>1, <3>4 DEF PairInv, TypeInv, TypeOK
    <3>6. n \in Range(handlers)
      <4>1. handlers \in Seq(1..Len(calls))
        BY <1>1, PairTypes DEF PairInv
      <4> QED
        BY <3>4, <3>5, <4>1, RangeTail
    <3>7. answered'[n] = n
      BY <1>1, <3>4, <3>5 DEF PairInv, TypeInv, TypeOK
    <3> QED
      BY <1>1, <3>6, <3>7 DEF PairInv, ConnInv
  <2>2. CASE ~asyncRead
    <3>1. answered' = answered
      BY <1>1, <2>2 DEF Next, Application, Service, Network, connect, close, command, subscribe,
         singleShotSubscribe, Subscribing, unsubscribe, doAsyncCommand, CallMessageHandler,
         ReadFails, Execute, Publish, Break, vars, history
    <3> QED
      BY <3>1
  <2> QED
    BY <2>1, <2>2
<1>2. Spec => [][Paired]_vars
  BY <1>1, PairAlways, PTL DEF Spec
<1> QED
  BY <1>2 DEF ConfirmationsPaired

-----------------------------------------------------------------------------
(***************************************************************************)
(* Message handlers                                                        *)
(***************************************************************************)

\* The calls whose message handler is in the map.
Registered == {n \in Regular : Open /\ calls[n].conn = connects /\ n \notin gone}

Handler(n) == [id |-> IdOf(n), call |-> n, name |-> calls[n].name]

HandlersInv == msgHandlers = {Handler(n) : n \in Registered}

\* Subscribes before call n.
Earlier(n) == {i \in 1..(n - 1) : calls[i].verb = "subscribe" /\ ~calls[i].once}

\* Two calls never return the same handle.
LEMMA Ids ==
    ASSUME TypeInv, NEW n \in Regular, NEW k \in Regular, IdOf(n) = IdOf(k)
    PROVE  n = k
<1>1. \A i \in Regular : i \in Nat /\ i \in 1..Len(calls) /\ Len(calls) \in Nat
  BY Shapes DEF Regular, TypeInv
<1>2. \A i \in Regular : IsFiniteSet(Earlier(i)) /\ IdOf(i) = Cardinality(Earlier(i))
  <2> SUFFICES ASSUME NEW i \in Regular
               PROVE  IsFiniteSet(Earlier(i)) /\ IdOf(i) = Cardinality(Earlier(i))
    OBVIOUS
  <2>1. Earlier(i) \subseteq 1..(i - 1)
    BY DEF Earlier
  <2>2. 1 \in Int /\ i - 1 \in Int
    BY <1>1
  <2>3. IsFiniteSet(1..(i - 1))
    BY <2>2, FS_Interval
  <2> QED
    BY <2>1, <2>3, FS_Subset DEF Earlier, IdOf
<1>3. ASSUME NEW i \in Regular, NEW j \in Regular, i < j PROVE IdOf(i) # IdOf(j)
  <2>1. i \in Earlier(j) /\ i \notin Earlier(i)
    BY <1>1, <1>3 DEF Earlier, Regular
  <2>2. Earlier(i) \subseteq Earlier(j)
    BY <1>1, <1>3 DEF Earlier
  <2> QED
    BY <1>2, <2>1, <2>2, FS_Subset
<1> QED
  BY <1>1, <1>3

\* The handler of a call stays the one it was when more calls are made; a new
\* one has the next id.
LEMMA HandlersGrow ==
    ASSUME TypeInv, NEW info \in CallInfo, calls' = Append(calls, info),
           NEW N, N = Len(calls) + 1
    PROVE  /\ \A n \in 1..Len(calls) : Handler(n)' = Handler(n)
           /\ Handler(N)' = [id |-> subscribeSeq, call |-> N, name |-> info.name]
<1>1. /\ Len(calls) \in Nat /\ \A n \in 1..Len(calls) : calls'[n] = calls[n]
      /\ calls'[N] = info
  BY Shapes, Grows DEF TypeInv
<1>2. \A n : IdOf(n)' =
         Cardinality({i \in 1..(n - 1) : calls'[i].verb = "subscribe" /\ ~calls'[i].once})
  BY DEF IdOf
<1>3. ASSUME NEW n \in 1..Len(calls) PROVE IdOf(n)' = IdOf(n)
  <2>1. \A i \in 1..(n - 1) : calls'[i] = calls[i]
    BY <1>1
  <2>2. {i \in 1..(n - 1) : calls'[i].verb = "subscribe" /\ ~calls'[i].once}
        = {i \in 1..(n - 1) : calls[i].verb = "subscribe" /\ ~calls[i].once}
    BY <2>1
  <2> QED
    BY <1>2, <2>2 DEF IdOf
<1>4. IdOf(N)' = subscribeSeq
  <2>1. 1..(N - 1) = 1..Len(calls)
    BY <1>1
  <2>2. {i \in 1..(N - 1) : calls'[i].verb = "subscribe" /\ ~calls'[i].once}
        = {i \in 1..Len(calls) : calls[i].verb = "subscribe" /\ ~calls[i].once}
    BY <1>1, <2>1
  <2> QED
    BY <1>2, <2>2 DEF Regular, TypeInv, TypeOK
<1> QED
  BY <1>1, <1>3, <1>4 DEF Handler

\* What a registered handler is.
LEMMA IsRegistered ==
    ASSUME TypeInv, HandlersInv
    PROVE  /\ OneEach
           /\ \A n, x : (\E h \in msgHandlers : h.name = x /\ h.call = n)
                        <=> n \in Registered /\ calls[n].name = x
<1>1. \A n : Handler(n).call = n /\ Handler(n).name = calls[n].name
  BY DEF Handler
<1>2. OneEach
  BY <1>1 DEF HandlersInv, OneEach
<1> QED
  BY <1>1, <1>2 DEF HandlersInv

LEMMA HandlersSame ==
    ASSUME HandlersInv, UNCHANGED <<msgHandlers, calls, connects, gone>>, Open' = Open
    PROVE  HandlersInv' /\ Registered' = Registered
<1>1. Registered' = Registered
  BY DEF Registered, Regular
<1>2. \A n : Handler(n)' = Handler(n)
  BY DEF Handler, IdOf
<1> QED
  BY <1>1, <1>2 DEF HandlersInv

LEMMA HandlersConnect ==
    ASSUME PairInv, HandlersInv, connect
    PROVE  HandlersInv' /\ Registered' = {}
<1>1. ~Open /\ UNCHANGED <<msgHandlers, calls>> /\ connects' = connects + 1
  BY DEF connect, Open
<1>2. \A n \in Regular : calls[n].conn # connects + 1
  <2>1. \A n \in 1..Len(calls) : calls[n].conn \in Nat /\ connects \in Nat /\ calls[n].conn <= connects
    BY PairTypes DEF PairInv, ConnInv
  <2> QED
    BY <2>1 DEF Regular
<1>3. Registered' = {}
  BY <1>1, <1>2 DEF Registered, Regular
<1>4. msgHandlers = {}
  BY <1>1 DEF HandlersInv, Registered
<1> QED
  BY <1>1, <1>3, <1>4 DEF HandlersInv

LEMMA HandlersClose == ASSUME close PROVE HandlersInv' /\ Registered' = {}
<1>1. ~Open' /\ msgHandlers' = {}
  BY DEF close, ClearHandlers, Open
<1>2. Registered' = {}
  BY <1>1 DEF Registered
<1> QED
  BY <1>1, <1>2 DEF HandlersInv

\* A call that registers no handler for good.
LEMMA HandlersIssue ==
    ASSUME TypeInv, HandlersInv, Open, Open', NEW verb \in {"subscribe", "unsubscribe", "plain"},
           NEW kind \in Kind, NEW name \in Names, NEW once \in BOOLEAN,
           Issue(verb, kind, name, once), UNCHANGED <<published, connects, gone>>
    PROVE  /\ Regular' \ {Len(calls) + 1} = Regular
           /\ \A n \in Registered : n \in 1..Len(calls)
           /\ Registered' = IF verb = "subscribe" /\ ~once
                            THEN Registered \cup {Len(calls) + 1} ELSE Registered
           /\ ~(verb = "subscribe" /\ ~once) /\ msgHandlers' = msgHandlers => HandlersInv'
           /\ verb = "subscribe" /\ ~once
              /\ msgHandlers' = msgHandlers \cup
                    {[id |-> subscribeSeq, call |-> Len(calls) + 1, name |-> name]}
              => HandlersInv'
<1> DEFINE info == [verb |-> verb, kind |-> kind, name |-> name, once |-> once,
                    conn |-> connects]
<1>0. PICK N : N = Len(calls) + 1
  OBVIOUS
<1>1. /\ Len(calls) \in Nat /\ info \in CallInfo /\ calls' = Append(calls, info)
      /\ \A n \in 1..Len(calls) : calls'[n] = calls[n]
      /\ calls'[N] = info
      /\ Regular' = IF verb = "subscribe" /\ ~once THEN Regular \cup {N} ELSE Regular
  BY <1>0, Issued
<1>2. info.name = name /\ info.conn = connects
  OBVIOUS
<1>3. N \notin Regular /\ N \notin gone /\ Regular \subseteq 1..Len(calls)
  <2>1. N \notin Regular /\ Regular \subseteq 1..Len(calls)
    BY <1>0, <1>1 DEF Regular
  <2> QED
    BY <2>1 DEF TypeInv, TypeOK
<1> HIDE DEF info
<1>4. /\ \A n \in 1..Len(calls) : Handler(n)' = Handler(n)
      /\ Handler(N)' = [id |-> subscribeSeq, call |-> N, name |-> name]
  BY <1>0, <1>1, <1>2, HandlersGrow
<1>5. Registered' = {n \in Regular' : Open' /\ calls'[n].conn = connects /\ n \notin gone}
  BY DEF Registered
<1>6. Registered \subseteq 1..Len(calls)
  BY <1>3 DEF Registered
<1>7. CASE verb = "subscribe" /\ ~once
  <2>1. Registered' = Registered \cup {N}
    BY <1>1, <1>2, <1>3, <1>5, <1>7 DEF Registered
  <2>2. {Handler(n)' : n \in Registered'} =
           {Handler(n) : n \in Registered} \cup {[id |-> subscribeSeq, call |-> N, name |-> name]}
    BY <1>4, <1>6, <2>1
  <2> QED
    BY <1>0, <1>1, <1>3, <1>6, <1>7, <2>1, <2>2 DEF HandlersInv
<1>8. CASE ~(verb = "subscribe" /\ ~once)
  <2>1. Registered' = Registered
    BY <1>1, <1>3, <1>5, <1>8 DEF Registered
  <2>2. {Handler(n)' : n \in Registered'} = {Handler(n) : n \in Registered}
    BY <1>4, <1>6, <2>1
  <2> QED
    BY <1>0, <1>1, <1>3, <1>6, <1>8, <2>1, <2>2 DEF HandlersInv
<1> QED
  BY <1>7, <1>8

LEMMA HandlersUnsubscribe ==
    ASSUME TypeInv, HandlersInv, NEW k \in 1..Len(calls), unsubscribe(k)
    PROVE  HandlersInv' /\ Registered' = Registered \ {k} /\ Regular' = Regular
<1> DEFINE info == [verb |-> "unsubscribe", kind |-> calls[k].kind, name |-> calls[k].name,
                    once |-> FALSE, conn |-> connects]
<1>1. /\ Open /\ Open' /\ Issue("unsubscribe", calls[k].kind, calls[k].name, FALSE)
      /\ gone' = gone \cup {k} /\ UNCHANGED <<published, connects>>
      /\ msgHandlers' = msgHandlers \ {h \in msgHandlers : h.name = calls[k].name /\ h.id = IdOf(k)}
      /\ k \in Regular
  BY DEF unsubscribe, Open, OfHandle, Regular
<1>2. calls[k].kind \in Kind /\ calls[k].name \in Names
  BY Shapes DEF TypeInv, CallInfo
<1>3. /\ Len(calls) \in Nat /\ info \in CallInfo /\ calls' = Append(calls, info)
      /\ \A n \in 1..Len(calls) : calls'[n] = calls[n]
      /\ Regular' = Regular
  BY <1>1, <1>2, Issued
<1> HIDE DEF info
<1>4. \A n \in 1..Len(calls) : Handler(n)' = Handler(n)
  BY <1>3, HandlersGrow
<1>5. Registered' = Registered \ {k} /\ Registered \subseteq Regular /\ Regular \subseteq 1..Len(calls)
  <2>1. Registered' = {n \in Regular : calls'[n].conn = connects /\ n \notin gone \cup {k}}
    BY <1>1, <1>3 DEF Registered
  <2>2. Regular \subseteq 1..Len(calls)
    BY DEF Regular
  <2> QED
    BY <1>1, <1>3, <2>1, <2>2 DEF Registered
<1>6. \A n \in Registered :
         Handler(n).name = calls[k].name /\ Handler(n).id = IdOf(k) <=> n = k
  BY <1>1, <1>5, Ids DEF Handler
<1>7. msgHandlers' = {Handler(n) : n \in Registered \ {k}}
  BY <1>1, <1>6 DEF HandlersInv
<1>8. {Handler(n)' : n \in Registered'} = {Handler(n) : n \in Registered \ {k}}
  BY <1>4, <1>5
<1>9. HandlersInv' <=> msgHandlers' = {Handler(n)' : n \in Registered'}
  BY DEF HandlersInv
<1> QED
  BY <1>3, <1>5, <1>7, <1>8, <1>9

-----------------------------------------------------------------------------
(***************************************************************************)
(* What the server and the messages are about                              *)
(***************************************************************************)

Wanted(kind, name) ==
    \E n \in 1..Len(calls) :
        calls[n].verb = "subscribe" /\ calls[n].kind = kind /\ calls[n].name = name

TravelInv ==
    /\ \A kind, name : <<kind, name>> \in subs => Wanted(kind, name)
    /\ \A i \in 1..Len(toClient) :
          toClient[i].what = "message" => Wanted(toClient[i].kind, toClient[i].name)
    /\ MessagesInOrder

\* The next call has heard nothing yet.
FreshInv == \A n \in Call : n > Len(calls) => heard[n] = <<>>

\* What was called for never is not: nothing is forgotten when calls are made.
LEMMA WantedStays ==
    ASSUME TypeInv, NEW verb, NEW kind, NEW name, NEW once, Issue(verb, kind, name, once)
    PROVE  /\ \A k, x : Wanted(k, x) => Wanted(k, x)'
           /\ \A x : BothKinds(x) => BothKinds(x)'
<1>1. /\ Len(calls) \in Nat /\ Len(calls') = Len(calls) + 1
      /\ \A n \in 1..Len(calls) : calls'[n] = calls[n]
  <2> DEFINE info == [verb |-> verb, kind |-> kind, name |-> name, once |-> once,
                      conn |-> connects]
  <2>1. calls \in Seq(CallInfo) /\ CallInfo \subseteq CallInfo \cup {info}
    BY DEF TypeInv, TypeOK
  <2>2. calls \in Seq(CallInfo \cup {info})
    BY <2>1, SeqMonotonic
  <2>3. calls' = Append(calls, info)
    BY DEF Issue
  <2> HIDE DEF info
  <2> QED
    BY <2>2, <2>3, AppendProperties, LenProperties
<1>2. 1..Len(calls) \subseteq 1..Len(calls')
  BY <1>1
<1>3. \A k, x : Wanted(k, x)' <=>
         \E n \in 1..Len(calls') :
            calls'[n].verb = "subscribe" /\ calls'[n].kind = k /\ calls'[n].name = x
  BY DEF Wanted
<1>4. \A k, x : Wanted(k, x) => Wanted(k, x)'
  BY <1>1, <1>2, <1>3 DEF Wanted
<1>5. \A x : BothKinds(x) <=> \A k \in Kind : Wanted(k, x)
  BY DEF BothKinds, Wanted
<1>6. \A x : BothKinds(x)' <=> \A k \in Kind : Wanted(k, x)'
  BY DEF BothKinds, Wanted
<1> QED
  BY <1>4, <1>5, <1>6

LEMMA KindsStay ==
    ASSUME TypeInv, NEW verb, NEW kind, NEW name, NEW once, Issue(verb, kind, name, once),
           NEW n, calls'[n] = calls[n], BothKinds(calls[n].name)
    PROVE  BothKinds(calls[n].name)'
<1>1. PICK x : x = calls[n].name
  OBVIOUS
<1>2. BothKinds(x)'
  BY <1>1, WantedStays
<1>3. calls'[n].name = x
  BY <1>1
<1> QED
  BY <1>2, <1>3 DEF BothKinds

LEMMA TravelSame ==
    ASSUME TravelInv, UNCHANGED <<subs, calls, toClient>>
    PROVE  TravelInv'
BY DEF TravelInv, Wanted, MessagesInOrder, Carried

LEMMA TravelIssue ==
    ASSUME TypeInv, TravelInv, NEW verb, NEW kind, NEW name, NEW once,
           Issue(verb, kind, name, once), UNCHANGED <<subs, toClient>>
    PROVE  TravelInv'
<1>1. \A k, x : Wanted(k, x) => Wanted(k, x)'
  BY WantedStays
<1>2. MessagesInOrder'
  BY DEF TravelInv, MessagesInOrder, Carried
<1> QED
  BY <1>1, <1>2 DEF TravelInv

\* Nothing new is sent.
LEMMA TravelLess ==
    ASSUME TravelInv, subs' \subseteq subs, UNCHANGED calls, MessagesInOrder',
           \A i \in 1..Len(toClient') : \E j \in 1..Len(toClient) : toClient'[i] = toClient[j]
    PROVE  TravelInv'
<1>1. \A k, x : Wanted(k, x)' = Wanted(k, x)
  BY DEF Wanted
<1> QED
  BY <1>1 DEF TravelInv

LEMMA TravelEmpty ==
    ASSUME TravelInv, subs' \subseteq subs, UNCHANGED calls, toClient' = <<>>
    PROVE  TravelInv'
<1>1. MessagesInOrder' /\ Len(toClient') = 0 /\ 1..0 = {}
  BY ClientEmpty
<1> QED
  BY <1>1, TravelLess

LEMMA TravelNext ==
    ASSUME PairInv, TravelInv, [Next]_vars
    PROVE  TravelInv'
<1>1. TypeInv /\ MessagesInOrder
  BY DEF PairInv, TravelInv
<1>2. CASE Application
  <2>1. CASE connect
    BY <2>1, TravelSame DEF connect
  <2>2. CASE close
    <3>1. subs' = {} /\ toClient' = <<>> /\ UNCHANGED calls
      BY <2>2 DEF close
    <3> QED
      BY <3>1, TravelEmpty
  <2>3. CASE command
    BY <1>1, <2>3, TravelIssue DEF command, network
  <2>4. ASSUME NEW kind, NEW name, subscribe(kind, name) PROVE TravelInv'
    BY <1>1, <2>4, TravelIssue DEF subscribe, Subscribing, network
  <2>5. ASSUME NEW kind, NEW name, singleShotSubscribe(kind, name) PROVE TravelInv'
    BY <1>1, <2>5, TravelIssue DEF singleShotSubscribe, Subscribing, network
  <2>6. ASSUME NEW k, unsubscribe(k) PROVE TravelInv'
    BY <1>1, <2>6, TravelIssue DEF unsubscribe, network
  <2> QED
    BY <1>2, <2>1, <2>2, <2>3, <2>4, <2>5, <2>6 DEF Application
<1>3. CASE doAsyncCommand
  BY <1>3, TravelSame DEF doAsyncCommand
<1>4. CASE CallMessageHandler
  BY <1>4, TravelSame DEF CallMessageHandler, network
<1>5. CASE asyncRead
  <2>1. UNCHANGED <<subs, calls>> /\ toClient # <<>>
    BY <1>5 DEF asyncRead
  <2>2. toClient' = Tail(toClient) \/ toClient' = <<>>
    BY <1>5, Branches DEF ProcessMessage, CallReplyHandler, CallErrorHandler
  <2>3. CASE toClient' = Tail(toClient)
    BY <1>1, <2>1, <2>3, ClientTail, TravelLess
  <2>4. CASE toClient' = <<>>
    BY <2>1, <2>4, TravelEmpty
  <2> QED
    BY <2>2, <2>3, <2>4
<1>6. CASE ReadFails
  BY <1>6, TravelSame DEF ReadFails
<1>7. CASE Execute
  <2> DEFINE n == Head(toServer)
  <2>1. /\ toServer # <<>> /\ UNCHANGED calls /\ toClient' = Append(toClient, Reply(n))
        /\ \A k, x : <<k, x>> \in subs' =>
              \/ <<k, x>> \in subs
              \/ calls[n].verb = "subscribe" /\ calls[n].kind = k /\ calls[n].name = x
    <3>1. subs' = CASE calls[n].verb = "subscribe"   -> subs \cup {<<calls[n].kind, calls[n].name>>}
                    [] calls[n].verb = "unsubscribe" -> subs \ {<<calls[n].kind, calls[n].name>>}
                    [] OTHER                         -> subs
      BY <1>7 DEF Execute
    <3>2. \A k, x : <<k, x>> \in subs' =>
              \/ <<k, x>> \in subs
              \/ calls[n].verb = "subscribe" /\ calls[n].kind = k /\ calls[n].name = x
      BY <3>1
    <3> QED
      BY <1>7, <3>2 DEF Execute
  <2>2. n \in 1..Len(calls)
    BY <1>1, <2>1, NextCommand
  <2> HIDE DEF n
  <2>3. \A k, x : Wanted(k, x)' = Wanted(k, x)
    BY <2>1 DEF Wanted
  <2>4. /\ MessagesInOrder'
        /\ \A i \in 1..Len(toClient') :
              toClient'[i].what = "message" => \E j \in 1..Len(toClient) : toClient'[i] = toClient[j]
    BY <1>1, <2>1, <2>2, ClientReply
  <2>5. \A k, x : <<k, x>> \in subs' => Wanted(k, x)
    BY <2>1, <2>2 DEF TravelInv, Wanted
  <2> QED
    BY <2>3, <2>4, <2>5 DEF TravelInv
<1>8. ASSUME NEW c \in Channels, Publish(c) PROVE TravelInv'
  <2>1. UNCHANGED <<subs, calls>>
    BY <1>8 DEF Publish
  <2>2. \A k, x : Wanted(k, x)' = Wanted(k, x)
    BY <2>1 DEF Wanted
  <2>3. /\ MessagesInOrder'
        /\ \A i \in 1..Len(toClient') :
              \/ \E j \in 1..Len(toClient) : toClient'[i] = toClient[j]
              \/ \E kind \in Kind, name \in Names :
                    SentFor(c, kind, name) /\ toClient'[i] = Message(kind, name, published + 1)
    BY <1>1, <1>8, ClientPublish
  <2>4. \A k, x : SentFor(c, k, x) => Wanted(k, x)
    BY DEF SentFor, TravelInv
  <2>5. \A k, x, m : Message(k, x, m).kind = k /\ Message(k, x, m).name = x
    BY DEF Message
  <2> QED
    BY <2>1, <2>2, <2>3, <2>4, <2>5 DEF TravelInv
<1>9. CASE Break
  <2>1. subs' = {} /\ UNCHANGED calls /\ toClient' \in {toClient, <<>>}
    BY <1>9 DEF Break
  <2>2. CASE toClient' = toClient
    BY <1>1, <2>1, <2>2, TravelLess DEF MessagesInOrder, Carried
  <2> QED
    BY <2>1, <2>2, TravelEmpty
<1>10. CASE UNCHANGED vars
  BY <1>10, TravelSame DEF vars, network
<1> QED
  BY <1>2, <1>3, <1>4, <1>5, <1>6, <1>7, <1>8, <1>9, <1>10 DEF Next, Service, Network

-----------------------------------------------------------------------------
(***************************************************************************)
(* From the server to a message handler                                    *)
(***************************************************************************)

Come(n)   == Range(heard[n]) \cup Posted(n)
Coming(n) == InTransit(calls[n].kind, calls[n].name)

\* Heard, then posted, then on its way, then lost: in this order, and together
\* what was due.
Belt(n) ==
    /\ Increasing(heard[n]) /\ DeliveriesInOrder(n) /\ Before(Range(heard[n]), Posted(n))
    /\ Come(n) \subseteq due[n] /\ Before(Come(n), due[n] \ Come(n))
    /\ n \in Registered =>
          /\ Before(Come(n), Coming(n))
          /\ reading => /\ Coming(n) \subseteq due[n]
                        /\ Before(Coming(n), due[n] \ (Come(n) \cup Coming(n)))
          /\ reading /\ link => due[n] = Come(n) \cup Coming(n)

BeltInv == \A n \in Regular : ~BothKinds(calls[n].name) => Belt(n)

MsgInv == PairInv /\ HandlersInv /\ TravelInv /\ FreshInv

LEMMA BeltTypes ==
    ASSUME TypeInv, ConnInv, NEW n \in Regular \cup Single
    PROVE  /\ n \in 1..Len(calls) /\ n \in Call /\ published \in Nat
           /\ heard[n] \in Seq(1..published) /\ 1..published \subseteq Nat
           /\ Range(heard[n]) \subseteq 1..published /\ Posted(n) \subseteq 1..published
           /\ Come(n) \subseteq 1..published /\ Coming(n) \subseteq 1..published
           /\ due[n] \subseteq 1..published
<1>1. n \in 1..Len(calls)
  BY DEF Regular, Single
<1>2. n \in Call
  BY <1>1, Within
<1>3. published \in Nat /\ heard[n] \in Seq(1..published) /\ due[n] \subseteq 1..published
  BY <1>2, BoundsAssumption DEF TypeInv, TypeOK
<1>4. 1..published \subseteq Nat
  BY <1>3
<1>5. Range(heard[n]) \subseteq 1..published /\ Posted(n) \subseteq 1..published
      /\ Coming(n) \subseteq 1..published
  BY <1>3, RangeIs, StrandTypes, ClientTypes DEF Coming
<1> QED
  BY <1>1, <1>2, <1>3, <1>4, <1>5 DEF Come

\* What may leave a handler's belt as it is.
LEMMA BeltSame ==
    ASSUME NEW n, Belt(n),
           heard'[n] = heard[n], due'[n] = due[n], DeliveriesInOrder(n)', Posted(n)' = Posted(n),
           n \in Registered' => /\ n \in Registered /\ Coming(n)' = Coming(n)
                                /\ reading' => reading
                                /\ reading' /\ link' => link
    PROVE  Belt(n)'
<1>1. Come(n)' = Come(n)
  BY DEF Come
<1> QED
  BY <1>1 DEF Belt, Increasing, Before

\* Nothing is on its way any more.
LEMMA BeltLost ==
    ASSUME NEW n, Belt(n),
           heard'[n] = heard[n], due'[n] = due[n], DeliveriesInOrder(n)', Posted(n)' = Posted(n),
           Coming(n)' = {}, ~(reading' /\ link')
    PROVE  Belt(n)'
<1>1. Come(n)' = Come(n)
  BY DEF Come
<1> QED
  BY <1>1 DEF Belt, Increasing, Before

LEMMA ComingEmpty == ASSUME NEW n, toClient' = <<>> PROVE Coming(n)' = {}
<1>1. Len(toClient') = 0 /\ 1..0 = {}
  BY EmptySeq
<1> QED
  BY <1>1 DEF Coming, InTransit

\* A command is posted; the handlers of old are as they were.
LEMMA BeltIssue ==
    ASSUME TypeInv, ConnInv, HandlersInv, Open, Open',
           NEW verb \in {"subscribe", "unsubscribe", "plain"},
           NEW kind \in Kind, NEW name \in Names, NEW once \in BOOLEAN,
           Issue(verb, kind, name, once),
           UNCHANGED <<link, reading, toClient, heard, published, connects>>,
           NEW n \in Regular, n \in Registered' => n \in Registered,
           due'[n] = due[n], Belt(n)
    PROVE  Belt(n)'
<1>1. Posted(n)' = Posted(n) /\ DeliveriesInOrder(n)'
  BY StrandIssue DEF Belt
<1>2. calls'[n] = calls[n]
  BY Issued DEF Regular
<1>3. Coming(n)' = Coming(n)
  BY <1>2 DEF Coming, InTransit
<1> QED
  BY <1>1, <1>3, BeltSame

LEMMA BeltConnect == ASSUME MsgInv, BeltInv, connect PROVE BeltInv'
<1> SUFFICES ASSUME NEW n \in Regular, ~BothKinds(calls[n].name) PROVE Belt(n)'
  BY DEF BeltInv, connect, Regular, BothKinds
<1>1. Belt(n)
  BY DEF BeltInv
<1>2. Registered' = {} /\ UNCHANGED <<heard, due, strandQ>>
  BY HandlersConnect DEF MsgInv, connect
<1>3. Posted(n)' = Posted(n) /\ DeliveriesInOrder(n)'
  BY <1>1, <1>2 DEF Posted, Deliveries, DeliveriesInOrder, Belt
<1> QED
  BY <1>1, <1>2, <1>3, BeltSame

LEMMA BeltClose == ASSUME MsgInv, BeltInv, close PROVE BeltInv'
<1> SUFFICES ASSUME NEW n \in Regular, ~BothKinds(calls[n].name) PROVE Belt(n)'
  BY DEF BeltInv, close, Regular, BothKinds
<1>1. Belt(n)
  BY DEF BeltInv
<1>2. Registered' = {} /\ UNCHANGED <<heard, due, strandQ>>
  BY HandlersClose DEF close, history
<1>3. Posted(n)' = Posted(n) /\ DeliveriesInOrder(n)'
  BY <1>1, <1>2 DEF Posted, Deliveries, DeliveriesInOrder, Belt
<1> QED
  BY <1>1, <1>2, <1>3, BeltSame

\* The steps of the application that start no message handler for good.
LEMMA BeltOldCalls ==
    ASSUME MsgInv, BeltInv, Open, Open',
           NEW verb \in {"subscribe", "unsubscribe", "plain"},
           NEW kind \in Kind, NEW name \in Names, NEW once \in BOOLEAN,
           Issue(verb, kind, name, once),
           UNCHANGED <<link, reading, toClient, heard, published, connects>>,
           \A n \in Regular : due'[n] = due[n],
           \A n \in Regular : n \in Registered' => n \in Registered
    PROVE  \A n \in Regular : ~BothKinds(calls[n].name)' => Belt(n)'
<1> SUFFICES ASSUME NEW n \in Regular, ~BothKinds(calls[n].name)' PROVE Belt(n)'
  OBVIOUS
<1>1. TypeInv /\ ConnInv /\ HandlersInv
  BY DEF MsgInv, PairInv
<1>2. calls'[n] = calls[n]
  BY <1>1, Issued DEF Regular
<1>3. ~BothKinds(calls[n].name)
  <2>1. BothKinds(calls[n].name) => BothKinds(calls[n].name)'
    BY <1>1, <1>2, KindsStay
  <2> QED
    BY <2>1
<1>4. Belt(n)
  BY <1>3 DEF BeltInv
<1> QED
  BY <1>1, <1>4, BeltIssue

LEMMA BeltCommand == ASSUME MsgInv, BeltInv, command PROVE BeltInv'
<1>1. /\ Open /\ Open' /\ Issue("plain", "channel", Star, FALSE)
      /\ "channel" \in Kind /\ Star \in Names
      /\ UNCHANGED <<msgHandlers, link, reading, toClient, heard, due, published, connects, gone>>
  BY DEF command, Open, client, network, history, Kind, Names
<1>2. TypeInv /\ HandlersInv
  BY DEF MsgInv, PairInv
<1>3. Registered' = Registered /\ Regular' = Regular
  <2>1. Registered' = Registered
    BY <1>1, <1>2, HandlersIssue
  <2>2. Regular' = Regular
    BY <1>1, <1>2, Issued
  <2> QED
    BY <2>1, <2>2
<1>4. \A n \in Regular : ~BothKinds(calls[n].name)' => Belt(n)'
  BY <1>1, <1>3, BeltOldCalls
<1> QED
  BY <1>3, <1>4 DEF BeltInv

LEMMA BeltUnsubscribe ==
    ASSUME MsgInv, BeltInv, NEW k \in 1..Len(calls), unsubscribe(k)
    PROVE  BeltInv'
<1>1. TypeInv /\ HandlersInv
  BY DEF MsgInv, PairInv
<1>2. /\ Open /\ Open' /\ Issue("unsubscribe", calls[k].kind, calls[k].name, FALSE)
      /\ calls[k].kind \in Kind /\ calls[k].name \in Names
      /\ UNCHANGED <<link, reading, toClient, heard, due, published, connects>>
  BY <1>1, Shapes DEF unsubscribe, Open, network, TypeInv, CallInfo
<1>3. Registered' = Registered \ {k} /\ Regular' = Regular
  BY <1>1, HandlersUnsubscribe
<1>4. \A n \in Regular : ~BothKinds(calls[n].name)' => Belt(n)'
  BY <1>2, <1>3, BeltOldCalls
<1> QED
  BY <1>3, <1>4 DEF BeltInv

\* The belt of a handler that is new.
LEMMA BeltNew ==
    ASSUME TypeInv, TypeInv', ConnInv, ConnInv', FreshInv,
           NEW N, N = Len(calls) + 1, N \in Regular', Deliveries(N)' = {},
           NEW kind, NEW name, calls'[N].kind = kind, calls'[N].name = name,
           Subscribing(kind, name)
    PROVE  Belt(N)'
<1>1. N \in Call
  BY Shapes, BoundsAssumption DEF Regular, ConnInv, Call, TypeInv
<1>2. heard'[N] = <<>> /\ UNCHANGED <<toClient, heard>>
  BY <1>1, Shapes DEF FreshInv, Subscribing, network, TypeInv
<1>3. due'[N] = InTransit(kind, name)
  BY <1>1 DEF Subscribing, TypeInv, TypeOK
<1>4. Coming(N)' = InTransit(kind, name)
  BY <1>2 DEF Coming, InTransit
<1>5. Posted(N)' = {} /\ DeliveriesInOrder(N)'
  BY DEF Posted, DeliveriesInOrder
<1>6. Range(heard[N])' = {} /\ Increasing(heard[N])'
  BY <1>2, EmptyRange
<1>7. Come(N)' = {}
  BY <1>5, <1>6 DEF Come
<1> QED
  BY <1>3, <1>4, <1>5, <1>6, <1>7 DEF Belt, Before

LEMMA BeltSubscribe ==
    ASSUME MsgInv, MsgInv', BeltInv, NEW kind \in Kind, NEW name \in NamesOf(kind),
           subscribe(kind, name)
    PROVE  BeltInv'
<1>1. /\ TypeInv /\ TypeInv' /\ ConnInv /\ ConnInv' /\ HandlersInv /\ FreshInv
  BY DEF MsgInv, PairInv
<1>2. /\ Open /\ Open' /\ Issue("subscribe", kind, name, FALSE) /\ name \in Names
      /\ Subscribing(kind, name)
      /\ UNCHANGED <<link, reading, toClient, heard, published, connects, gone>>
  BY <1>1, TypeSubscribing DEF subscribe
<1>3. PICK N : N = Len(calls) + 1
  OBVIOUS
<1>4. /\ Regular' = Regular \cup {N} /\ N \notin Regular \cup Single /\ Len(calls) \in Nat
      /\ calls'[N].kind = kind /\ calls'[N].name = name
  <2>1. /\ Regular' = Regular \cup {N} /\ Len(calls) \in Nat
        /\ calls'[N] = [verb |-> "subscribe", kind |-> kind, name |-> name,
                        once |-> FALSE, conn |-> connects]
    BY <1>1, <1>2, <1>3, Issued
  <2>2. N \notin 1..Len(calls)
    BY <1>3, <2>1
  <2> QED
    BY <2>1, <2>2 DEF Regular, Single
<1>5. Registered' = Registered \cup {N}
  BY <1>1, <1>2, <1>3, HandlersIssue
<1>6. \A n \in Regular : due'[n] = due[n]
  <2>1. \A n \in Regular : n \in Call /\ n # N
    BY <1>1, <1>4, BeltTypes
  <2> QED
    BY <1>1, <1>2, <1>3, <2>1 DEF Subscribing, TypeInv, TypeOK
<1>7. \A n \in Regular : ~BothKinds(calls[n].name)' => Belt(n)'
  BY <1>2, <1>4, <1>5, <1>6, BeltOldCalls
<1>8. Belt(N)'
  <2>1. Deliveries(N)' = Deliveries(N) /\ Deliveries(N) = {}
    BY <1>1, <1>2, <1>4, StrandIssue, StrandTypes
  <2> QED
    BY <1>1, <1>2, <1>3, <1>4, <2>1, BeltNew
<1> QED
  BY <1>4, <1>7, <1>8 DEF BeltInv

LEMMA BeltSingleShotSubscribe ==
    ASSUME MsgInv, BeltInv, NEW kind \in Kind, NEW name \in NamesOf(kind),
           singleShotSubscribe(kind, name)
    PROVE  BeltInv'
<1>1. TypeInv /\ ConnInv /\ HandlersInv
  BY DEF MsgInv, PairInv
<1>2. /\ Open /\ Open' /\ Issue("subscribe", kind, name, TRUE) /\ name \in Names
      /\ Subscribing(kind, name)
      /\ UNCHANGED <<msgHandlers, link, reading, toClient, heard, published, connects, gone>>
  BY <1>1, TypeSubscribing DEF singleShotSubscribe
<1>3. Regular' = Regular /\ Registered' = Registered
  <2>1. Registered' = Registered
    BY <1>1, <1>2, HandlersIssue
  <2>2. Regular' = Regular
    BY <1>1, <1>2, Issued
  <2> QED
    BY <2>1, <2>2
<1>4. \A n \in Regular : due'[n] = due[n]
  <2>1. \A n \in Regular : n \in Call /\ n # Len(calls) + 1
    BY <1>1, BeltTypes, Shapes DEF Regular, TypeInv
  <2> QED
    BY <1>1, <1>2, <2>1 DEF Subscribing, TypeInv, TypeOK
<1>5. \A n \in Regular : ~BothKinds(calls[n].name)' => Belt(n)'
  BY <1>2, <1>3, <1>4, BeltOldCalls
<1> QED
  BY <1>3, <1>5 DEF BeltInv

LEMMA BeltDoAsyncCommand == ASSUME MsgInv, BeltInv, doAsyncCommand PROVE BeltInv'
<1> SUFFICES ASSUME NEW n \in Regular, ~BothKinds(calls[n].name) PROVE Belt(n)'
  BY DEF BeltInv, doAsyncCommand, Regular, BothKinds
<1>1. Belt(n) /\ TypeInv /\ HandlersInv
  BY DEF BeltInv, MsgInv, PairInv
<1>2. /\ strandQ # <<>> /\ Head(strandQ).op = "send" /\ strandQ' = Tail(strandQ)
      /\ UNCHANGED <<state, msgHandlers, link, reading, toClient, calls, heard, due, connects, gone>>
  BY DEF doAsyncCommand, history
<1>3. Posted(n)' = Posted(n) /\ DeliveriesInOrder(n)'
  BY <1>1, <1>2, StrandTail DEF Belt
<1>4. Registered' = Registered
  BY <1>1, <1>2, HandlersSame DEF Open
<1>5. Coming(n)' = Coming(n)
  BY <1>2 DEF Coming, InTransit
<1> QED
  BY <1>1, <1>2, <1>3, <1>4, <1>5, BeltSame

LEMMA BeltCallMessageHandler == ASSUME MsgInv, BeltInv, CallMessageHandler PROVE BeltInv'
<1> SUFFICES ASSUME NEW n \in Regular, ~BothKinds(calls[n].name) PROVE Belt(n)'
  BY DEF BeltInv, CallMessageHandler, Regular, BothKinds
<1> DEFINE h == Head(strandQ)
<1>1. Belt(n) /\ TypeInv /\ HandlersInv /\ ConnInv
  BY DEF BeltInv, MsgInv, PairInv
<1>2. /\ strandQ # <<>> /\ h.op = "deliver" /\ strandQ' = Tail(strandQ)
      /\ heard' = [heard EXCEPT ![h.call] = Append(@, h.msg)]
      /\ UNCHANGED <<state, msgHandlers, link, reading, toClient, calls, due, connects, gone>>
  BY DEF CallMessageHandler, client, network
<1>3. Registered' = Registered
  BY <1>1, <1>2, HandlersSame DEF Open
<1>4. Coming(n)' = Coming(n)
  BY <1>2 DEF Coming, InTransit
<1>5. DeliveriesInOrder(n)' /\ h.msg \in 1..published
  BY <1>1, <1>2, StrandTail DEF Belt
<1>6. /\ n \in Call /\ heard[n] \in Seq(1..published) /\ 1..published \subseteq Nat
  BY <1>1, BeltTypes
<1>7. CASE h.call # n
  <2>1. heard'[n] = heard[n]
    BY <1>1, <1>2, <1>6, <1>7 DEF TypeInv, TypeOK
  <2>2. Posted(n)' = Posted(n)
    BY <1>1, <1>2, <1>7, StrandTail
  <2> QED
    BY <1>1, <1>2, <1>3, <1>4, <1>5, <2>1, <2>2, BeltSame
<1>8. CASE h.call = n
  <2>1. heard'[n] = Append(heard[n], h.msg)
    BY <1>1, <1>2, <1>6, <1>8 DEF TypeInv, TypeOK
  <2>2. Posted(n) = {h.msg} \cup Posted(n)' /\ Before({h.msg}, Posted(n)')
    BY <1>1, <1>2, <1>8, StrandTail DEF Belt
  <2> HIDE DEF h
  <2>3. Range(heard[n])' = Range(heard[n]) \cup {h.msg}
    <3>1. PICK S, s, m : s = heard[n] /\ m = h.msg /\ s \in Seq(S) /\ m \in S
      BY <1>5, <1>6
    <3>2. Range(Append(s, m)) = Range(s) \cup {m}
      BY <3>1, RangeAppend
    <3>3. Range(heard[n])' = Range(Append(s, m))
      BY <2>1, <3>1
    <3> QED
      BY <3>1, <3>2, <3>3
  <2>4. Before(Range(heard[n]), Posted(n)) /\ Increasing(heard[n])
    BY <1>1 DEF Belt
  <2>5. Increasing(heard[n])'
    <3>1. Increasing(Append(heard[n], h.msg))
      BY <1>5, <1>6, <2>2, <2>4, IncreasingAppend DEF Before
    <3> QED
      BY <2>1, <3>1
  <2>6. Come(n)' = Come(n)
    BY <2>2, <2>3 DEF Come
  <2>7. Before(Range(heard[n])', Posted(n)')
    BY <2>2, <2>3, <2>4 DEF Before
  <2> QED
    BY <1>1, <1>2, <1>3, <1>4, <1>5, <2>5, <2>6, <2>7 DEF Belt, Before
<1> QED
  BY <1>7, <1>8

LEMMA BeltReadFails == ASSUME MsgInv, BeltInv, ReadFails PROVE BeltInv'
<1> SUFFICES ASSUME NEW n \in Regular, ~BothKinds(calls[n].name) PROVE Belt(n)'
  BY DEF BeltInv, ReadFails, Regular, BothKinds
<1>1. Belt(n) /\ HandlersInv
  BY DEF BeltInv, MsgInv
<1>2. /\ reading' = FALSE
      /\ UNCHANGED <<strandQ, state, msgHandlers, link, toClient, calls, heard, due, connects, gone>>
  BY DEF ReadFails, client, history
<1>3. Posted(n)' = Posted(n) /\ DeliveriesInOrder(n)'
  BY <1>1, <1>2 DEF Posted, Deliveries, DeliveriesInOrder, Belt
<1>4. Registered' = Registered
  BY <1>1, <1>2, HandlersSame DEF Open
<1>5. Coming(n)' = Coming(n)
  BY <1>2 DEF Coming, InTransit
<1> QED
  BY <1>1, <1>2, <1>3, <1>4, <1>5, BeltSame

LEMMA BeltExecute == ASSUME MsgInv, BeltInv, Execute PROVE BeltInv'
<1> SUFFICES ASSUME NEW n \in Regular, ~BothKinds(calls[n].name) PROVE Belt(n)'
  BY DEF BeltInv, Execute, Regular, BothKinds
<1>1. Belt(n) /\ HandlersInv /\ TypeInv
  BY DEF BeltInv, MsgInv, PairInv
<1>2. /\ toServer # <<>> /\ toClient' = Append(toClient, Reply(Head(toServer)))
      /\ UNCHANGED <<strandQ, state, msgHandlers, link, reading, calls, heard, due, connects, gone>>
  BY DEF Execute, client, history
<1>3. Posted(n)' = Posted(n) /\ DeliveriesInOrder(n)'
  BY <1>1, <1>2 DEF Posted, Deliveries, DeliveriesInOrder, Belt
<1>4. Registered' = Registered
  BY <1>1, <1>2, HandlersSame DEF Open
<1>5. Coming(n)' = Coming(n)
  <2>1. PICK k, x : k = calls[n].kind /\ x = calls[n].name
    OBVIOUS
  <2>2. PICK a \in 1..Len(calls) : a = Head(toServer)
    BY <1>1, <1>2, NextCommand
  <2>3. InTransit(k, x)' = InTransit(k, x)
    BY <1>1, <1>2, <2>2, ClientReply
  <2>4. Coming(n)' = InTransit(k, x)' /\ Coming(n) = InTransit(k, x)
    BY <1>2, <2>1 DEF Coming, InTransit
  <2> QED
    BY <2>3, <2>4
<1> QED
  BY <1>1, <1>2, <1>3, <1>4, <1>5, BeltSame

LEMMA BeltBreak == ASSUME MsgInv, BeltInv, Break PROVE BeltInv'
<1> SUFFICES ASSUME NEW n \in Regular, ~BothKinds(calls[n].name) PROVE Belt(n)'
  BY DEF BeltInv, Break, Regular, BothKinds
<1>1. Belt(n) /\ HandlersInv
  BY DEF BeltInv, MsgInv
<1>2. /\ link' = FALSE /\ toClient' \in {toClient, <<>>}
      /\ UNCHANGED <<strandQ, state, msgHandlers, reading, calls, heard, due, connects, gone>>
  BY DEF Break, client, history
<1>3. Posted(n)' = Posted(n) /\ DeliveriesInOrder(n)'
  BY <1>1, <1>2 DEF Posted, Deliveries, DeliveriesInOrder, Belt
<1>4. Registered' = Registered
  BY <1>1, <1>2, HandlersSame DEF Open
<1>5. CASE toClient' = toClient
  <2>1. Coming(n)' = Coming(n)
    BY <1>2, <1>5 DEF Coming, InTransit
  <2> QED
    BY <1>1, <1>2, <1>3, <1>4, <2>1, BeltSame
<1>6. CASE toClient' = <<>>
  <2>1. Coming(n)' = {}
    BY <1>6, ComingEmpty
  <2> QED
    BY <1>1, <1>2, <1>3, <1>4, <2>1, BeltLost
<1> QED
  BY <1>2, <1>5, <1>6

\* A message is given out: to a handler that is registered for its name, and is
\* not registered for the other kind, it comes as the next of those on their way.
LEMMA BeltProcessMessage ==
    ASSUME MsgInv, BeltInv, asyncRead, Head(toClient).what = "message",
           ProcessMessage(Head(toClient))
    PROVE  BeltInv'
<1> DEFINE v == Head(toClient)
<1>1. /\ TypeInv /\ ConnInv /\ HandlersInv /\ TravelInv
  BY DEF MsgInv, PairInv
<1>2. /\ toClient # <<>> /\ reading /\ reading' = reading /\ toClient' = Tail(toClient)
      /\ UNCHANGED <<state, msgHandlers, link, calls, heard, due, connects, gone>>
  BY DEF asyncRead, ProcessMessage
<1> SUFFICES ASSUME NEW n \in Regular, ~BothKinds(calls[n].name) PROVE Belt(n)'
  BY <1>2 DEF BeltInv, Regular, BothKinds
<1>3. /\ v.kind \in Kind /\ v.name \in Names /\ v.msg \in 1..published
      /\ v = toClient[1] /\ 1 \in 1..Len(toClient)
  BY <1>1, <1>2, NextValue
<1>4. Registered' = Registered
  BY <1>1, <1>2, HandlersSame DEF Open
<1>5. PICK posts \in Seq(Posting) :
         /\ strandQ' = strandQ \o posts
         /\ AllOf(posts, v)
         /\ Given(posts, n) <=> \E h \in msgHandlers : h.name = v.name /\ h.call = n
         /\ GivenOnce(posts, n)
  <2>1. OneEach
    BY <1>1, IsRegistered
  <2>2. ProcessMessage(v)
    OBVIOUS
  <2> HIDE DEF v
  <2>3. PICK posts \in Seq(Posting) :
           /\ strandQ' = strandQ \o posts /\ AllOf(posts, v)
           /\ \A q \in Regular : Given(posts, q)
                                 <=> \E h \in msgHandlers : h.name = v.name /\ h.call = q
           /\ OneEach => \A q \in Regular : GivenOnce(posts, q)
    BY <1>1, <1>3, <2>2, GivenOut
  <2> QED
    BY <2>1, <2>3
<1>6. Given(posts, n) <=> n \in Registered /\ calls[n].name = v.name
  BY <1>1, <1>5, IsRegistered
<1>7. Belt(n)
  BY DEF BeltInv
<1>8. /\ calls[n].kind \in Kind /\ calls[n].name \in Names
      /\ n \in 1..Len(calls) /\ calls[n].verb = "subscribe"
  BY <1>1, Shapes DEF Regular, TypeInv, CallInfo
<1>9. PICK k \in Kind, x \in Names : k = calls[n].kind /\ x = calls[n].name
  BY <1>8
<1>10. Coming(n) = InTransit(k, x) /\ Coming(n)' = InTransit(k, x)'
  BY <1>2, <1>9 DEF Coming, InTransit
<1>11. /\ Given(posts, n) => Posted(n)' = Posted(n) \cup {v.msg}
       /\ ~Given(posts, n) => Posted(n)' = Posted(n)
       /\ Before(Posted(n), {v.msg}) => DeliveriesInOrder(n)'
       /\ ~Given(posts, n) => DeliveriesInOrder(n)'
  <2>1. DeliveriesInOrder(n)
    BY <1>7 DEF Belt
  <2>2. v.msg \in 1..published /\ strandQ' = strandQ \o posts /\ AllOf(posts, v)
    BY <1>3, <1>5
  <2> HIDE DEF v
  <2>3. /\ Given(posts, n) => Posted(n)' = Posted(n) \cup {v.msg}
        /\ ~Given(posts, n) => Posted(n)' = Posted(n)
    BY <1>1, <2>2, StrandPosts
  <2>4. ~Given(posts, n) => DeliveriesInOrder(n)'
    BY <1>1, <2>1, <2>2, StrandPosts
  <2>5. Before(Posted(n), {v.msg}) => DeliveriesInOrder(n)'
    BY <1>1, <1>5, <2>1, <2>2, StrandPosts
  <2> QED
    BY <2>3, <2>4, <2>5
<1>12. IF v.kind = k /\ v.name = x
       THEN /\ InTransit(k, x) = {v.msg} \cup InTransit(k, x)'
            /\ Before({v.msg}, InTransit(k, x)')
       ELSE InTransit(k, x)' = InTransit(k, x)
  BY <1>1, <1>2, ClientTail DEF TravelInv
<1> HIDE DEF v
<1>13. CASE n \in Registered /\ x = v.name
  <2>1. v.kind = k
    <3>1. Wanted(v.kind, v.name)
      BY <1>1, <1>3 DEF TravelInv, v
    <3>2. Wanted(k, v.name)
      BY <1>8, <1>9, <1>13 DEF Wanted
    <3> QED
      BY <1>3, <1>9, <1>13, <3>1, <3>2 DEF BothKinds, Wanted, Kind
  <2> DEFINE m == v.msg
  <2>2. Coming(n) = {m} \cup Coming(n)' /\ Before({m}, Coming(n)') /\ Posted(n)' = Posted(n) \cup {m}
    BY <1>6, <1>9, <1>10, <1>11, <1>12, <1>13, <2>1
  <2>3. /\ Increasing(heard[n]) /\ Before(Range(heard[n]), Posted(n))
        /\ Come(n) \subseteq due[n] /\ Before(Come(n), due[n] \ Come(n))
        /\ Before(Come(n), Coming(n)) /\ Coming(n) \subseteq due[n]
        /\ Before(Coming(n), due[n] \ (Come(n) \cup Coming(n)))
        /\ link => due[n] = Come(n) \cup Coming(n)
    BY <1>2, <1>7, <1>13 DEF Belt
  <2> HIDE DEF m
  <2>4. Come(n)' = Come(n) \cup {m} /\ Range(heard[n])' = Range(heard[n])
    BY <1>2, <2>2 DEF Come
  <2>5. DeliveriesInOrder(n)'
    <3>1. Before(Posted(n), {m})
      BY <2>2, <2>3 DEF Before, Come
    <3> QED
      BY <1>11, <3>1 DEF m
  <2>6. Before(Range(heard[n])', Posted(n)')
    BY <2>2, <2>3, <2>4 DEF Before, Come
  <2>7. Come(n)' \subseteq due[n]
    BY <2>2, <2>3, <2>4
  <2>8. Before(Come(n)', due[n] \ Come(n)')
    <3> SUFFICES ASSUME NEW a \in Come(n)', NEW b \in due[n], b \notin Come(n)'
                 PROVE  a < b
      BY DEF Before
    <3>1. CASE a \in Come(n)
      BY <2>3, <2>4, <3>1 DEF Before
    <3>2. CASE a = m /\ b \in Coming(n)'
      BY <2>2, <3>2 DEF Before
    <3>3. CASE a = m /\ b \notin Coming(n)'
      BY <2>2, <2>3, <2>4, <3>3 DEF Before
    <3> QED
      BY <2>4, <3>1, <3>2, <3>3
  <2>9. Before(Come(n)', Coming(n)')
    BY <2>2, <2>3, <2>4 DEF Before
  <2>10. Come(n)' \cup Coming(n)' = Come(n) \cup Coming(n)
    BY <2>2, <2>4
  <2>11. Coming(n)' \subseteq due[n] /\ Before(Coming(n)', due[n] \ (Come(n)' \cup Coming(n)'))
         /\ (link => due[n] = Come(n)' \cup Coming(n)')
    BY <2>2, <2>3, <2>10 DEF Before
  <2>12. Increasing(heard[n])'
    BY <1>2, <2>3 DEF Increasing
  <2> QED
    BY <1>2, <2>5, <2>6, <2>7, <2>8, <2>9, <2>11, <2>12 DEF Belt, Before
<1>14. CASE ~(n \in Registered /\ x = v.name)
  <2>1. Posted(n)' = Posted(n) /\ DeliveriesInOrder(n)'
    BY <1>6, <1>9, <1>11, <1>14
  <2>2. n \in Registered => Coming(n)' = Coming(n)
    BY <1>10, <1>12, <1>14
  <2> QED
    BY <1>2, <1>4, <1>7, <2>1, <2>2, BeltSame
<1> QED
  BY <1>13, <1>14

LEMMA BeltAsyncRead == ASSUME MsgInv, BeltInv, asyncRead PROVE BeltInv'
<1> DEFINE v == Head(toClient)
<1>1. /\ TypeInv /\ HandlersInv /\ toClient # <<>>
      /\ UNCHANGED <<state, msgHandlers, link, calls, heard, due, connects, gone>>
  BY DEF MsgInv, PairInv, asyncRead
<1>2. CASE v.what = "message" /\ ProcessMessage(v)
  BY <1>2, BeltProcessMessage
<1>3. CASE v.what # "message" /\ (CallReplyHandler(v) \/ CallErrorHandler)
  <2> SUFFICES ASSUME NEW n \in Regular, ~BothKinds(calls[n].name) PROVE Belt(n)'
    BY <1>1 DEF BeltInv, Regular, BothKinds
  <2>1. Belt(n)
    BY DEF BeltInv
  <2>2. /\ strandQ' = strandQ
        /\ \/ toClient' = Tail(toClient) /\ reading' = reading
           \/ toClient' = <<>> /\ reading' = FALSE
    BY <1>3 DEF CallReplyHandler, CallErrorHandler
  <2>3. Posted(n)' = Posted(n) /\ DeliveriesInOrder(n)'
    BY <2>1, <2>2 DEF Posted, Deliveries, DeliveriesInOrder, Belt
  <2>4. Registered' = Registered
    BY <1>1, HandlersSame DEF Open
  <2>5. CASE toClient' = Tail(toClient) /\ reading' = reading
    <3>1. PICK k, x : k = calls[n].kind /\ x = calls[n].name
      OBVIOUS
    <3>2. InTransit(k, x)' = InTransit(k, x)
      BY <1>1, <1>3, <2>5, ClientTail
    <3>3. Coming(n)' = InTransit(k, x)' /\ Coming(n) = InTransit(k, x)
      BY <1>1, <3>1 DEF Coming, InTransit
    <3> QED
      BY <1>1, <2>1, <2>3, <2>4, <2>5, <3>2, <3>3, BeltSame
  <2>6. CASE toClient' = <<>> /\ reading' = FALSE
    <3>1. Coming(n)' = {}
      BY <2>6, ComingEmpty
    <3> QED
      BY <1>1, <2>1, <2>3, <2>6, <3>1, BeltLost
  <2> QED
    BY <2>2, <2>5, <2>6
<1> QED
  BY <1>2, <1>3, Branches DEF MsgInv

LEMMA BeltPublish == ASSUME MsgInv, BeltInv, NEW c \in Channels, Publish(c) PROVE BeltInv'
<1>1. /\ TypeInv /\ ConnInv /\ HandlersInv /\ EndedInv
      /\ UNCHANGED <<strandQ, state, msgHandlers, link, reading, calls, heard, connects, gone>>
  BY DEF MsgInv, PairInv, Publish, client
<1> SUFFICES ASSUME NEW n \in Regular, ~BothKinds(calls[n].name) PROVE Belt(n)'
  BY <1>1 DEF BeltInv, Regular, BothKinds
<1>2. Belt(n)
  BY DEF BeltInv
<1>3. Posted(n)' = Posted(n) /\ DeliveriesInOrder(n)'
  BY <1>1, <1>2 DEF Posted, Deliveries, DeliveriesInOrder, Belt
<1>4. Registered' = Registered
  BY <1>1, HandlersSame DEF Open
<1>5. /\ n \in 1..Len(calls) /\ n \in Call /\ published \in Nat /\ 1..published \subseteq Nat
      /\ Come(n) \subseteq 1..published /\ Coming(n) \subseteq 1..published
      /\ due[n] \subseteq 1..published
  BY <1>1, BeltTypes
<1>6. PICK k \in Kind, x \in Names : k = calls[n].kind /\ x = calls[n].name
  BY <1>1, <1>5, Shapes DEF TypeInv, CallInfo
<1>7. Coming(n) = InTransit(k, x) /\ Coming(n)' = InTransit(k, x)'
  BY <1>1, <1>6 DEF Coming, InTransit
<1>8. InTransit(k, x)' = IF SentFor(c, k, x) THEN InTransit(k, x) \cup {published + 1}
                         ELSE InTransit(k, x)
  BY <1>1, ClientPublish
<1>9. due'[n] = IF n \in Live /\ SentFor(c, k, x) THEN due[n] \cup {published + 1} ELSE due[n]
  <2>1. due' = [q \in Call |-> IF q \in Live /\ SentFor(c, calls[q].kind, calls[q].name)
                               THEN due[q] \cup {published + 1} ELSE due[q]]
    BY <1>1, Published
  <2>2. due'[n] = IF n \in Live /\ SentFor(c, calls[n].kind, calls[n].name)
                  THEN due[n] \cup {published + 1} ELSE due[n]
    BY <1>5, <2>1
  <2> QED
    BY <1>6, <2>2
<1>10. SentFor(c, k, x) => link
  BY <1>1 DEF SentFor, EndedInv
<1>11. link => (n \in Live <=> n \in Registered)
  BY <1>1 DEF Live, Registered, Regular, EndedInv
<1>12. CASE n \in Registered /\ SentFor(c, k, x)
  <2> DEFINE m == published + 1
  <2>1. Coming(n)' = Coming(n) \cup {m} /\ due'[n] = due[n] \cup {m} /\ link
    BY <1>7, <1>8, <1>9, <1>10, <1>11, <1>12
  <2>2. Come(n)' = Come(n)
    BY <1>1, <1>3 DEF Come
  <2>3. Before(Come(n), {m}) /\ m \notin Come(n)
    BY <1>5 DEF Before
  <2> HIDE DEF m
  <2>4. /\ Increasing(heard[n]) /\ Before(Range(heard[n]), Posted(n))
        /\ Come(n) \subseteq due[n] /\ Before(Come(n), due[n] \ Come(n))
        /\ Before(Come(n), Coming(n))
        /\ reading => Coming(n) \subseteq due[n] /\ due[n] = Come(n) \cup Coming(n)
    BY <1>2, <1>12, <2>1 DEF Belt
  <2>5. Come(n)' \subseteq due'[n] /\ Before(Come(n)', due'[n] \ Come(n)') /\ Before(Come(n)', Coming(n)')
    BY <2>1, <2>2, <2>3, <2>4 DEF Before
  <2>6. reading => due'[n] = Come(n)' \cup Coming(n)'
    BY <2>1, <2>2, <2>4
  <2>7. reading => Before(Coming(n)', due'[n] \ (Come(n)' \cup Coming(n)'))
    BY <2>6 DEF Before
  <2>8. Increasing(heard[n])' /\ Before(Range(heard[n])', Posted(n)')
    BY <1>1, <1>3, <2>4 DEF Increasing
  <2> QED
    BY <1>1, <1>3, <2>5, <2>6, <2>7, <2>8 DEF Belt, Before
<1>13. CASE ~(n \in Registered /\ SentFor(c, k, x))
  <2>1. due'[n] = due[n]
    BY <1>9, <1>10, <1>11, <1>13
  <2>2. n \in Registered => Coming(n)' = Coming(n)
    BY <1>7, <1>8, <1>13
  <2> QED
    BY <1>1, <1>2, <1>3, <1>4, <2>1, <2>2, BeltSame
<1> QED
  BY <1>12, <1>13

\* Nothing is heard for a call that is not made.
LEMMA FreshNext ==
    ASSUME TypeInv, FreshInv, [Next]_vars
    PROVE  FreshInv'
<1>1. ASSUME NEW verb, NEW kind, NEW name, NEW once, Issue(verb, kind, name, once), heard' = heard
      PROVE  FreshInv'
  <2> DEFINE info == [verb |-> verb, kind |-> kind, name |-> name, once |-> once,
                      conn |-> connects]
  <2>1. calls \in Seq(CallInfo) /\ CallInfo \subseteq CallInfo \cup {info}
    BY DEF TypeInv, TypeOK
  <2>2. calls \in Seq(CallInfo \cup {info})
    BY <2>1, SeqMonotonic
  <2>3. calls' = Append(calls, info)
    BY <1>1 DEF Issue
  <2> HIDE DEF info
  <2>4. Len(calls') = Len(calls) + 1 /\ Len(calls) \in Nat
    BY <2>2, <2>3, AppendProperties, LenProperties
  <2>5. \A n \in Call : n > Len(calls') => n > Len(calls)
    BY <2>4 DEF Call
  <2> QED
    BY <1>1, <2>5 DEF FreshInv
<1>2. ASSUME UNCHANGED <<calls, heard>> PROVE FreshInv'
  BY <1>2 DEF FreshInv
<1>3. CASE Application
  BY <1>1, <1>2, <1>3 DEF Application, connect, close, command, subscribe, singleShotSubscribe,
     Subscribing, unsubscribe, history
<1>4. CASE CallMessageHandler
  <2>1. /\ strandQ # <<>> /\ Head(strandQ).op = "deliver" /\ UNCHANGED calls
        /\ heard' = [heard EXCEPT ![Head(strandQ).call] = Append(@, Head(strandQ).msg)]
        /\ strandQ' = Tail(strandQ)
    BY <1>4 DEF CallMessageHandler
  <2>2. Head(strandQ).call \in 1..Len(calls) /\ Len(calls) \in Nat
    <3>1. Head(strandQ).call \in Regular \cup Single
      BY <2>1, StrandTail
    <3> QED
      BY <3>1, Shapes DEF Regular, Single, TypeInv
  <2>3. \A n \in Call : n > Len(calls) => n # Head(strandQ).call
    BY <2>2 DEF Call
  <2> QED
    BY <2>1, <2>3 DEF FreshInv, TypeInv, TypeOK
<1>5. CASE doAsyncCommand \/ asyncRead \/ ReadFails
  BY <1>2, <1>5 DEF doAsyncCommand, asyncRead, ReadFails, history
<1>6. CASE Network
  BY <1>2, <1>6 DEF Network, Execute, Publish, Break, history
<1>7. CASE UNCHANGED vars
  BY <1>2, <1>7 DEF vars, history
<1> QED
  BY <1>3, <1>4, <1>5, <1>6, <1>7 DEF Next, Service

LEMMA HandlersNext ==
    ASSUME PairInv, HandlersInv, [Next]_vars
    PROVE  HandlersInv'
<1>1. TypeInv
  BY DEF PairInv
<1>2. CASE connect \/ close
  BY <1>2, HandlersConnect, HandlersClose
<1>3. CASE command
  <2>1. /\ Open /\ Open' /\ Issue("plain", "channel", Star, FALSE)
        /\ "channel" \in Kind /\ Star \in Names
        /\ UNCHANGED <<msgHandlers, published, connects, gone>>
    BY <1>3 DEF command, Open, client, network, history, Kind, Names
  <2> QED
    BY <1>1, <2>1, HandlersIssue
<1>4. ASSUME NEW kind \in Kind, NEW name \in NamesOf(kind), subscribe(kind, name)
      PROVE  HandlersInv'
  <2>1. /\ Open /\ Open' /\ Issue("subscribe", kind, name, FALSE) /\ name \in Names
        /\ UNCHANGED <<published, connects, gone>>
        /\ msgHandlers' = msgHandlers \cup
              {[id |-> subscribeSeq, call |-> Len(calls) + 1, name |-> name]}
    BY <1>1, <1>4, TypeSubscribing DEF subscribe
  <2> QED
    BY <1>1, <2>1, HandlersIssue
<1>5. ASSUME NEW kind \in Kind, NEW name \in NamesOf(kind), singleShotSubscribe(kind, name)
      PROVE  HandlersInv'
  <2>1. /\ Open /\ Open' /\ Issue("subscribe", kind, name, TRUE) /\ name \in Names
        /\ UNCHANGED <<msgHandlers, published, connects, gone>>
    BY <1>1, <1>5, TypeSubscribing DEF singleShotSubscribe
  <2> QED
    BY <1>1, <2>1, HandlersIssue
<1>6. ASSUME NEW k \in 1..Len(calls), unsubscribe(k) PROVE HandlersInv'
  BY <1>1, <1>6, HandlersUnsubscribe
<1>7. CASE Service \/ Network \/ UNCHANGED vars
  <2>1. UNCHANGED <<state, msgHandlers, calls, connects, gone>>
    BY <1>7 DEF Service, Network, doAsyncCommand, CallMessageHandler, asyncRead, ReadFails,
       Execute, Publish, Break, vars, client, history
  <2> QED
    BY <2>1, HandlersSame DEF Open
<1> QED
  BY <1>2, <1>3, <1>4, <1>5, <1>6, <1>7 DEF Next, Application

LEMMA MsgInit == Init => MsgInv /\ BeltInv
<1> SUFFICES ASSUME Init PROVE MsgInv /\ BeltInv
  OBVIOUS
<1>1. PairInv
  BY PairInit
<1>2. Len(calls) = 0 /\ Len(toClient) = 0
  BY EmptySeq DEF Init
<1>3. Regular = {} /\ Registered = {}
  BY <1>2 DEF Regular, Registered
<1>4. HandlersInv /\ BeltInv
  BY <1>3 DEF HandlersInv, BeltInv, Init
<1>5. TravelInv
  BY <1>2 DEF TravelInv, MessagesInOrder, Carried, Init
<1>6. FreshInv
  BY DEF FreshInv, Init
<1> QED
  BY <1>1, <1>4, <1>5, <1>6 DEF MsgInv

LEMMA MsgNext == ASSUME MsgInv, [Next]_vars PROVE MsgInv'
BY PairNext, HandlersNext, TravelNext, FreshNext DEF MsgInv, PairInv

LEMMA BeltNext == ASSUME MsgInv, BeltInv, [Next]_vars PROVE BeltInv'
<1>1. MsgInv'
  BY MsgNext
<1>2. CASE Application
  BY <1>1, <1>2, BeltConnect, BeltClose, BeltCommand, BeltSubscribe, BeltSingleShotSubscribe,
     BeltUnsubscribe DEF Application
<1>3. CASE Service
  BY <1>3, BeltDoAsyncCommand, BeltCallMessageHandler, BeltAsyncRead, BeltReadFails DEF Service
<1>4. CASE Network
  BY <1>4, BeltExecute, BeltPublish, BeltBreak DEF Network
<1>5. CASE UNCHANGED vars
  <2>1. UNCHANGED <<state, strandQ, link, reading, toClient, calls, heard, due, gone, connects>>
    BY <1>5 DEF vars, client, network, history
  <2>2. UNCHANGED <<Regular, Registered>>
    BY <2>1 DEF Regular, Registered, Open
  <2> SUFFICES ASSUME NEW n \in Regular, ~BothKinds(calls[n].name) PROVE Belt(n)'
    BY <2>1, <2>2 DEF BeltInv, BothKinds
  <2>3. Belt(n)
    BY DEF BeltInv
  <2>4. Posted(n)' = Posted(n) /\ DeliveriesInOrder(n)' /\ Coming(n)' = Coming(n)
    BY <2>1, <2>3 DEF Posted, Deliveries, DeliveriesInOrder, Belt, Coming, InTransit
  <2> QED
    BY <2>1, <2>2, <2>3, <2>4, BeltSame
<1> QED
  BY <1>2, <1>3, <1>4, <1>5 DEF Next

LEMMA BeltAlways == Spec => [](MsgInv /\ BeltInv)
BY MsgInit, MsgNext, BeltNext, PTL DEF Spec

\* A message handler is called with the messages sent while it was subscribed, in
\* order, each once; while its connection stands and is read, the rest of them are
\* on their way.
THEOREM MessageBeltCorrect == Spec => []MessageBelt
<1>1. MsgInv /\ BeltInv => MessageBelt
  <2> SUFFICES ASSUME MsgInv, BeltInv, NEW n \in Regular, ~BothKinds(calls[n].name)
               PROVE  /\ \A i, j \in 1..Len(heard[n]) : i < j => heard[n][i] < heard[n][j]
                      /\ \A i, j \in Deliveries(n) : i < j => strandQ[i].msg < strandQ[j].msg
                      /\ Before(Range(heard[n]), Posted(n))
                      /\ Come(n) \subseteq due[n] /\ Before(Come(n), due[n] \ Come(n))
                      /\ n \in Live /\ reading =>
                            due[n] \ Come(n) = InTransit(calls[n].kind, calls[n].name)
    BY DEF MessageBelt, Come
  <2>1. Belt(n)
    BY DEF BeltInv
  <2>2. n \in Live => n \in Registered /\ link
    BY DEF MsgInv, PairInv, EndedInv, Live, Registered
  <2>3. ASSUME n \in Live, reading PROVE due[n] \ Come(n) = Coming(n)
    <3>1. due[n] = Come(n) \cup Coming(n) /\ Before(Come(n), Coming(n))
      BY <2>1, <2>2, <2>3 DEF Belt
    <3>2. Coming(n) \subseteq Nat
      BY BeltTypes DEF MsgInv, PairInv
    <3>3. \A a \in Come(n) : a \notin Coming(n)
      BY <3>1, <3>2 DEF Before
    <3> QED
      BY <3>1, <3>3
  <2> QED
    BY <2>1, <2>3 DEF Belt, Increasing, DeliveriesInOrder, Coming
<1> QED
  BY <1>1, BeltAlways, PTL

-----------------------------------------------------------------------------
(***************************************************************************)
(* Single-shot handlers                                                    *)
(***************************************************************************)

Waiting(n) == {s \in singleShotMsgHandlers : s.call = n}

\* The three stages of a single-shot handler: registered, posted, called.
Standing(n) == (\E s : Waiting(n) = {s}) /\ heard[n] = <<>> /\ Deliveries(n) = {}
OnItsWay(n) == Waiting(n) = {} /\ heard[n] = <<>> /\ \E i : Deliveries(n) = {i}
Called(n)   == Waiting(n) = {} /\ Len(heard[n]) = 1 /\ Deliveries(n) = {}

Stage(n) == Standing(n) \/ OnItsWay(n) \/ Called(n)

SinglesInv == \A n \in Single : Stage(n)

LEMMA StageSame ==
    ASSUME NEW n, Stage(n), heard'[n] = heard[n], Deliveries(n)' = Deliveries(n),
           Waiting(n)' = Waiting(n)
    PROVE  Stage(n)'
BY DEF Stage, Standing, OnItsWay, Called

LEMMA SinglesSame ==
    ASSUME SinglesInv, UNCHANGED <<calls, singleShotMsgHandlers, strandQ, heard>>
    PROVE  SinglesInv'
<1>1. Single' = Single
  BY DEF Single
<1>2. \A n : Waiting(n)' = Waiting(n) /\ Deliveries(n)' = Deliveries(n)
  BY DEF Waiting, Deliveries
<1> QED
  BY <1>1, <1>2, StageSame DEF SinglesInv

LEMMA SinglesIssue ==
    ASSUME TypeInv, SinglesInv, UNCHANGED <<singleShotMsgHandlers, heard>>, Single' = Single,
           NEW verb, NEW kind, NEW name, NEW once, Issue(verb, kind, name, once)
    PROVE  SinglesInv'
<1>1. \A n : Deliveries(n)' = Deliveries(n)
  BY StrandIssue
<1>2. \A n : Waiting(n)' = Waiting(n)
  BY DEF Waiting
<1> QED
  BY <1>1, <1>2, StageSame DEF SinglesInv

LEMMA SinglesSubscribe ==
    ASSUME MsgInv, SinglesInv, NEW kind \in Kind, NEW name \in NamesOf(kind),
           singleShotSubscribe(kind, name)
    PROVE  SinglesInv'
<1>1. PICK c : c = Len(calls) + 1
  OBVIOUS
<1>2. /\ Open /\ name \in Names /\ TypeInv /\ Issue("subscribe", kind, name, TRUE)
      /\ heard' = heard /\ published' = published
      /\ singleShotMsgHandlers' = singleShotMsgHandlers \cup {[call |-> c, name |-> name]}
  BY <1>1 DEF singleShotSubscribe, Subscribing, Open, NamesOf, Names, MsgInv, PairInv
<1>3. c \in Call /\ Len(calls) \in Nat /\ Single' = Single \cup {c}
  BY <1>1, <1>2, Issued
<1>4. \A n \in Regular \cup Single : n # c
  BY <1>1, <1>3 DEF Regular, Single
<1>5. \A n : Deliveries(n)' = Deliveries(n)
  BY <1>2, StrandIssue
<1>6. \A s \in singleShotMsgHandlers : s.call \in Single
  BY <1>2 DEF TypeInv, TypeOK
<1>7. ASSUME NEW n \in Single PROVE Stage(n)'
  <2>1. n # c
    BY <1>4
  <2>2. Waiting(n)' = Waiting(n)
    BY <1>2, <2>1 DEF Waiting
  <2> QED
    BY <1>2, <1>5, <2>2, StageSame DEF SinglesInv
<1>8. Stage(c)'
  <2>1. Waiting(c)' = {[call |-> c, name |-> name]}
    BY <1>2, <1>4, <1>6 DEF Waiting
  <2>2. Deliveries(c)' = {}
    BY <1>2, <1>4, <1>5, StrandTypes
  <2>3. heard'[c] = <<>>
    BY <1>1, <1>2, <1>3 DEF MsgInv, FreshInv
  <2> QED
    BY <2>1, <2>2, <2>3 DEF Stage, Standing
<1> QED
  BY <1>3, <1>7, <1>8 DEF SinglesInv

\* Where call n's messages wait when the oldest thing in the strand has run.
LEMMA DeliveriesTail ==
    ASSUME TypeInv, strandQ # <<>>, strandQ' = Tail(strandQ), NEW n,
           ~(Head(strandQ).op = "deliver" /\ Head(strandQ).call = n)
    PROVE  /\ Deliveries(n) = {} => Deliveries(n)' = {}
           /\ (\E i : Deliveries(n) = {i}) => \E i : Deliveries(n)' = {i}
<1>1. Len(strandQ) \in Nat \ {0} /\ Deliveries(n) \subseteq 1..Len(strandQ)
  BY TailIs DEF TypeInv, TypeOK, Deliveries
<1>2. /\ \A i \in 1..Len(strandQ) : i \in Deliveries(n) <=> i - 1 \in Deliveries(n)'
      /\ Deliveries(n)' \subseteq 1..(Len(strandQ) - 1)
  BY StrandTail
<1>3. ASSUME NEW j \in Deliveries(n)' PROVE j \in Nat /\ j + 1 \in Deliveries(n)
  <2>1. j \in 1..(Len(strandQ) - 1)
    BY <1>2
  <2>2. j + 1 \in 1..Len(strandQ) /\ (j + 1) - 1 = j
    BY <1>1, <2>1
  <2>3. j + 1 \in Deliveries(n)
    BY <1>2, <2>2
  <2> QED
    BY <1>1, <2>1, <2>3
<1>4. ASSUME NEW i, Deliveries(n) = {i} PROVE Deliveries(n)' = {i - 1}
  <2>1. i \in 1..Len(strandQ)
    BY <1>1, <1>4
  <2>2. i - 1 \in Deliveries(n)'
    BY <1>2, <1>4, <2>1
  <2>3. ASSUME NEW j \in Deliveries(n)' PROVE j = i - 1
    BY <1>1, <1>3, <1>4, <2>1
  <2> QED
    BY <2>2, <2>3
<1> QED
  BY <1>3, <1>4

LEMMA StageTail ==
    ASSUME TypeInv, strandQ # <<>>, strandQ' = Tail(strandQ), NEW n, Stage(n),
           ~(Head(strandQ).op = "deliver" /\ Head(strandQ).call = n),
           heard'[n] = heard[n], UNCHANGED singleShotMsgHandlers
    PROVE  Stage(n)'
<1>1. /\ Deliveries(n) = {} => Deliveries(n)' = {}
      /\ (\E i : Deliveries(n) = {i}) => \E i : Deliveries(n)' = {i}
  BY DeliveriesTail
<1>2. Waiting(n)' = Waiting(n)
  BY DEF Waiting
<1> QED
  BY <1>1, <1>2 DEF Stage, Standing, OnItsWay, Called

LEMMA SinglesDoAsyncCommand == ASSUME TypeInv, SinglesInv, doAsyncCommand PROVE SinglesInv'
<1>1. /\ strandQ # <<>> /\ Head(strandQ).op = "send" /\ strandQ' = Tail(strandQ)
      /\ UNCHANGED <<singleShotMsgHandlers, calls, heard>>
  BY DEF doAsyncCommand, history
<1>2. Single' = Single
  BY <1>1 DEF Single
<1> QED
  BY <1>1, <1>2, StageTail DEF SinglesInv

LEMMA SinglesCallMessageHandler ==
    ASSUME TypeInv, ConnInv, SinglesInv, CallMessageHandler
    PROVE  SinglesInv'
<1> DEFINE h == Head(strandQ)
<1>1. /\ strandQ # <<>> /\ h.op = "deliver" /\ strandQ' = Tail(strandQ)
      /\ heard' = [heard EXCEPT ![h.call] = Append(@, h.msg)]
      /\ UNCHANGED <<singleShotMsgHandlers, calls>>
  BY DEF CallMessageHandler, client, network
<1> SUFFICES ASSUME NEW n \in Single PROVE Stage(n)'
  BY <1>1 DEF SinglesInv, Single
<1>2. Stage(n)
  BY DEF SinglesInv
<1>3. n \in Call /\ heard[n] \in Seq(1..published)
  BY BeltTypes
<1>4. CASE h.call # n
  <2>1. heard'[n] = heard[n]
    BY <1>1, <1>3, <1>4 DEF TypeInv, TypeOK
  <2> QED
    BY <1>1, <1>2, <1>4, <2>1, StageTail
<1>5. CASE h.call = n
  <2>1. heard'[n] = Append(heard[n], h.msg) /\ h.msg \in 1..published
    BY <1>1, <1>3, <1>5, StrandTail DEF TypeInv, TypeOK
  <2>2. /\ 1 \in 1..Len(strandQ)
        /\ \A i \in 1..Len(strandQ) : i \in Deliveries(n) <=> i = 1 \/ i - 1 \in Deliveries(n)'
        /\ Deliveries(n)' \subseteq 1..(Len(strandQ) - 1)
    BY <1>1, <1>5, StrandTail
  <2>3. 1 \in Deliveries(n)
    BY <2>2
  <2>4. OnItsWay(n)
    BY <1>2, <2>3 DEF Stage, Standing, Called
  <2>5. Deliveries(n)' = {}
    <3> SUFFICES ASSUME NEW j \in Deliveries(n)' PROVE FALSE
      OBVIOUS
    <3>1. j \in 1..(Len(strandQ) - 1) /\ Len(strandQ) \in Nat
      BY <1>1, <2>2, TailIs DEF TypeInv, TypeOK
    <3>2. j + 1 \in 1..Len(strandQ) /\ (j + 1) - 1 = j /\ j + 1 # 1
      BY <3>1
    <3>3. j + 1 \in Deliveries(n)
      BY <2>2, <3>2
    <3> QED
      BY <2>3, <2>4, <3>2, <3>3 DEF OnItsWay
  <2>6. heard[n] = <<>> /\ Waiting(n)' = {}
    BY <1>1, <2>4 DEF OnItsWay, Waiting
  <2>7. Len(heard'[n]) = 1
    <3>1. Len(heard[n]) = 0
      BY <2>6
    <3>2. Len(Append(heard[n], h.msg)) = Len(heard[n]) + 1
      BY <1>3, <2>1, AppendProperties
    <3> QED
      BY <2>1, <3>1, <3>2
  <2> QED
    BY <2>5, <2>6, <2>7 DEF Stage, Called
<1> QED
  BY <1>4, <1>5

\* A message is given out: to one single-shot handler at most, which is erased.
LEMMA SinglesProcessMessage ==
    ASSUME TypeInv, SinglesInv, UNCHANGED <<calls, heard>>, NEW v, v.name \in Names,
           v.msg \in 1..published, ProcessMessage(v)
    PROVE  SinglesInv'
<1>1. PICK posts \in Seq(Posting) :
         /\ strandQ' = strandQ \o posts /\ AllOf(posts, v)
         /\ \/ /\ UNCHANGED singleShotMsgHandlers
               /\ \A i \in 1..Len(posts) : posts[i].call \in Regular
            \/ \E s \in singleShotMsgHandlers :
                  /\ singleShotMsgHandlers' = singleShotMsgHandlers \ {s}
                  /\ 1 \in 1..Len(posts) /\ posts[1].call = s.call
                  /\ \A i \in 1..Len(posts) : i # 1 => posts[i].call \in Regular
  BY GivenOut
<1>2. ASSUME NEW n
      PROVE  /\ Deliveries(n) \subseteq Deliveries(n)'
             /\ \A i \in Deliveries(n)' :
                   i \in Deliveries(n) \/ Added(posts, n, Len(strandQ), i)
             /\ \A i \in 1..Len(posts) :
                   posts[i].call = n => Len(strandQ) + i \in Deliveries(n)'
  <2>1. strandQ' = strandQ \o posts /\ AllOf(posts, v)
    BY <1>1
  <2> QED
    BY <2>1, StrandPosts
<1>3. Len(strandQ) \in Nat
  BY StrandTypes
<1> SUFFICES ASSUME NEW n \in Single PROVE Stage(n)'
  BY DEF SinglesInv, Single
<1>4. Stage(n) /\ n \notin Regular
  BY DEF SinglesInv, Single, Regular
<1>5. ASSUME \A i \in 1..Len(posts) : posts[i].call # n, Waiting(n)' = Waiting(n)
      PROVE  Stage(n)'
  <2>1. Deliveries(n)' \subseteq Deliveries(n)
    BY <1>2, <1>5 DEF Added
  <2>2. Deliveries(n)' = Deliveries(n)
    BY <1>2, <2>1
  <2> QED
    BY <1>4, <1>5, <2>2, StageSame
<1>6. CASE UNCHANGED singleShotMsgHandlers /\ \A i \in 1..Len(posts) : posts[i].call \in Regular
  <2>1. Waiting(n)' = Waiting(n)
    BY <1>6 DEF Waiting
  <2> QED
    BY <1>4, <1>5, <1>6, <2>1
<1>7. ASSUME NEW s \in singleShotMsgHandlers,
             singleShotMsgHandlers' = singleShotMsgHandlers \ {s},
             1 \in 1..Len(posts), posts[1].call = s.call,
             \A i \in 1..Len(posts) : i # 1 => posts[i].call \in Regular
      PROVE  Stage(n)'
  <2>1. CASE s.call # n
    <3>1. Waiting(n)' = Waiting(n)
      BY <1>7, <2>1 DEF Waiting
    <3>2. \A i \in 1..Len(posts) : posts[i].call # n
      BY <1>4, <1>7, <2>1
    <3> QED
      BY <1>5, <3>1, <3>2
  <2>2. CASE s.call = n
    <3>1. s \in Waiting(n)
      BY <2>2 DEF Waiting
    <3>2. Standing(n)
      BY <1>4, <3>1 DEF Stage, OnItsWay, Called
    <3>3. Waiting(n)' = {} /\ heard'[n] = <<>> /\ Deliveries(n) = {}
      <4>1. Waiting(n)' = Waiting(n) \ {s}
        BY <1>7 DEF Waiting
      <4> QED
        BY <3>1, <3>2, <4>1 DEF Standing
    <3>4. Len(strandQ) + 1 \in Deliveries(n)'
      BY <1>2, <1>7, <2>2
    <3>5. ASSUME NEW i \in Deliveries(n)' PROVE i = Len(strandQ) + 1
      <4>1. /\ i - Len(strandQ) \in 1..Len(posts) /\ i \in Nat
            /\ posts[i - Len(strandQ)].call = n
        BY <1>2, <3>3 DEF Added
      <4>2. i - Len(strandQ) = 1
        BY <1>4, <1>7, <4>1
      <4> QED
        BY <1>3, <4>1, <4>2
    <3>6. Deliveries(n)' = {Len(strandQ) + 1}
      BY <3>4, <3>5
    <3> QED
      BY <3>3, <3>6 DEF Stage, OnItsWay
  <2> QED
    BY <2>1, <2>2
<1> QED
  BY <1>1, <1>6, <1>7

LEMMA SinglesAsyncRead == ASSUME MsgInv, SinglesInv, asyncRead PROVE SinglesInv'
<1> DEFINE v == Head(toClient)
<1>1. /\ PairInv /\ TypeInv /\ toClient # <<>> /\ UNCHANGED <<calls, heard>>
  BY DEF MsgInv, PairInv, asyncRead
<1>2. v.what = "message" => v.name \in Names /\ v.msg \in 1..published
  BY <1>1, NextValue
<1>3. \/ v.what = "message" /\ ProcessMessage(v)
      \/ CallReplyHandler(v) \/ CallErrorHandler
  BY <1>1, Branches
<1> HIDE DEF v
<1>4. CASE v.what = "message" /\ ProcessMessage(v)
  BY <1>1, <1>2, <1>4, SinglesProcessMessage
<1>5. CASE CallReplyHandler(v) \/ CallErrorHandler
  <2>1. UNCHANGED <<strandQ, singleShotMsgHandlers>>
    BY <1>5 DEF CallReplyHandler, CallErrorHandler
  <2> QED
    BY <1>1, <2>1, SinglesSame
<1> QED
  BY <1>3, <1>4, <1>5

LEMMA SinglesNext == ASSUME MsgInv, SinglesInv, [Next]_vars PROVE SinglesInv'
<1>1. TypeInv /\ ConnInv
  BY DEF MsgInv, PairInv
<1>2. CASE command
  <2>1. /\ Open /\ Issue("plain", "channel", Star, FALSE)
        /\ "channel" \in Kind /\ Star \in Names
        /\ UNCHANGED <<singleShotMsgHandlers, heard, published>>
    BY <1>2 DEF command, Open, Kind, Names, client, history
  <2>2. Single' = Single
    BY <1>1, <2>1, Issued
  <2> QED
    BY <1>1, <2>1, <2>2, SinglesIssue
<1>3. ASSUME NEW kind \in Kind, NEW name \in NamesOf(kind), subscribe(kind, name)
      PROVE  SinglesInv'
  <2>1. /\ Open /\ Issue("subscribe", kind, name, FALSE) /\ name \in Names
        /\ UNCHANGED <<singleShotMsgHandlers, heard, published>>
    BY <1>3 DEF subscribe, Subscribing, Open, NamesOf, Names
  <2>2. Single' = Single
    BY <1>1, <2>1, Issued
  <2> QED
    BY <1>1, <2>1, <2>2, SinglesIssue
<1>4. ASSUME NEW k \in 1..Len(calls), unsubscribe(k) PROVE SinglesInv'
  <2>1. PICK kind, name : kind = calls[k].kind /\ name = calls[k].name
    OBVIOUS
  <2>2. kind \in Kind /\ name \in Names
    BY <1>1, <2>1, Shapes DEF TypeInv, CallInfo
  <2>3. /\ Open /\ Issue("unsubscribe", kind, name, FALSE)
        /\ UNCHANGED <<singleShotMsgHandlers, heard, published>>
    BY <1>4, <2>1 DEF unsubscribe, Open
  <2>4. Single' = Single
    BY <1>1, <2>2, <2>3, Issued
  <2> QED
    BY <1>1, <2>3, <2>4, SinglesIssue
<1>5. CASE Application
  <2>1. CASE connect \/ close
    <3>1. UNCHANGED <<calls, singleShotMsgHandlers, strandQ, heard>>
      BY <2>1 DEF connect, close, history
    <3> QED
      BY <3>1, SinglesSame
  <2> QED
    BY <1>2, <1>3, <1>4, <1>5, <2>1, SinglesSubscribe DEF Application
<1>6. CASE ReadFails \/ Execute \/ Break \/ UNCHANGED vars \/ \E c \in Channels : Publish(c)
  <2>1. UNCHANGED <<calls, singleShotMsgHandlers, strandQ, heard>>
    BY <1>6 DEF ReadFails, Execute, Break, Publish, vars, client, history
  <2> QED
    BY <2>1, SinglesSame
<1>7. CASE doAsyncCommand \/ CallMessageHandler \/ asyncRead
  BY <1>1, <1>7, SinglesDoAsyncCommand, SinglesCallMessageHandler, SinglesAsyncRead
<1> QED
  BY <1>5, <1>6, <1>7 DEF Next, Service, Network

\* A single-shot handler is registered, waits in the strand or has been called:
\* always one of the three, and never twice.
THEOREM SingleShotOnceCorrect == Spec => []SingleShotOnce
<1>1. Init => SinglesInv
  <2>1. Init => Len(calls) = 0
    BY EmptySeq DEF Init
  <2> QED
    BY <2>1 DEF SinglesInv, Single
<1>2. MsgInv /\ SinglesInv => SingleShotOnce
  <2> SUFFICES ASSUME MsgInv, SinglesInv, NEW n \in Single
               PROVE  Len(heard[n]) + Cardinality(Deliveries(n)) + Cardinality(Waiting(n)) = 1
    BY DEF SingleShotOnce, Waiting
  <2>1. Stage(n)
    BY DEF SinglesInv
  <2>2. Cardinality({}) = 0 /\ \A x : Cardinality({x}) = 1
    BY FS_EmptySet, FS_Singleton
  <2>3. heard[n] = <<>> => Len(heard[n]) = 0
    BY EmptySeq
  <2>4. CASE Standing(n)
    <3>1. Cardinality(Waiting(n)) = 1 /\ Cardinality(Deliveries(n)) = 0
      BY <2>2, <2>4 DEF Standing
    <3> QED
      BY <2>3, <2>4, <3>1 DEF Standing
  <2>5. CASE OnItsWay(n)
    <3>1. Cardinality(Waiting(n)) = 0 /\ Cardinality(Deliveries(n)) = 1
      BY <2>2, <2>5 DEF OnItsWay
    <3> QED
      BY <2>3, <2>5, <3>1 DEF OnItsWay
  <2>6. CASE Called(n)
    BY <2>2, <2>6 DEF Called
  <2> QED
    BY <2>1, <2>4, <2>5, <2>6 DEF Stage
<1> QED
  BY <1>1, <1>2, SinglesNext, BeltAlways, PTL DEF Spec
=============================================================================
