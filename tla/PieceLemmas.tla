----------------------------- MODULE PieceLemmas -----------------------------
(***************************************************************************)
(* Facts about sequences and pieces on which the proofs about both clients *)
(* rest: what becomes of the two ends of a concatenation, of a prefix and  *)
(* of the replies completed when something is appended or taken away.      *)
(***************************************************************************)
EXTENDS Pieces, SequenceTheorems, TLAPS

(***************************************************************************)
(* Sequences                                                               *)
(***************************************************************************)
LEMMA HeadIsFirst ==
    ASSUME NEW S, NEW s \in Seq(S), s # <<>>
    PROVE  Len(s) \in Nat \ {0} /\ Head(s) = s[1] /\ s[1] \in S
BY EmptySeq, HeadTailProperties

LEMMA EmptyIffLen0 ==
    ASSUME NEW S, NEW s \in Seq(S)
    PROVE  Len(s) \in Nat /\ (s = <<>> <=> Len(s) = 0)
BY EmptySeq, LenProperties

LEMMA ConcatTail ==
    ASSUME NEW S, NEW s \in Seq(S), NEW t \in Seq(S), s # <<>>
    PROVE  /\ s \o t # <<>> /\ Head(s \o t) = Head(s)
           /\ Tail(s \o t) = Tail(s) \o t
<1>1. /\ s \o t \in Seq(S) /\ Len(s \o t) = Len(s) + Len(t)
      /\ \A i \in 1..Len(s) + Len(t) :
            (s \o t)[i] = IF i <= Len(s) THEN s[i] ELSE t[i - Len(s)]
  BY ConcatProperties
<1>2. Len(s) \in Nat \ {0} /\ Head(s) = s[1] /\ Len(t) \in Nat
  BY HeadIsFirst, LenProperties
<1>3. s \o t # <<>>
  BY <1>1, <1>2
<1>4. Head(s \o t) = Head(s)
  BY <1>1, <1>2, <1>3, HeadIsFirst
<1>5. /\ Tail(s) \in Seq(S) /\ Len(Tail(s)) = Len(s) - 1
      /\ \A i \in 1..Len(Tail(s)) : Tail(s)[i] = s[i + 1]
  BY HeadTailProperties
<1>6. /\ Tail(s \o t) \in Seq(S) /\ Len(Tail(s \o t)) = Len(s) + Len(t) - 1
      /\ \A i \in 1..Len(Tail(s \o t)) : Tail(s \o t)[i] = (s \o t)[i + 1]
  BY <1>1, <1>3, HeadTailProperties
<1>7. /\ Tail(s) \o t \in Seq(S) /\ Len(Tail(s) \o t) = Len(s) - 1 + Len(t)
      /\ \A i \in 1..(Len(s) - 1 + Len(t)) :
            (Tail(s) \o t)[i] = IF i <= Len(s) - 1 THEN Tail(s)[i] ELSE t[i - (Len(s) - 1)]
  BY <1>2, <1>5, ConcatProperties
<1>8. ASSUME NEW i \in 1..(Len(s) + Len(t) - 1)
      PROVE  Tail(s \o t)[i] = (Tail(s) \o t)[i]
  <2>1. Tail(s \o t)[i] = IF i + 1 <= Len(s) THEN s[i + 1] ELSE t[i + 1 - Len(s)]
    BY <1>1, <1>2, <1>6
  <2>2. CASE i <= Len(s) - 1
    BY <1>2, <1>5, <1>7, <2>1, <2>2
  <2>3. CASE i > Len(s) - 1
    BY <1>2, <1>7, <2>1, <2>3
  <2> QED
    BY <1>2, <2>2, <2>3
<1>9. Tail(s \o t) = Tail(s) \o t
  BY <1>2, <1>6, <1>7, <1>8, SeqEqual
<1> QED
  BY <1>3, <1>4, <1>9

\* The first element of t goes to the end of s.
LEMMA MoveOver ==
    ASSUME NEW S, NEW s \in Seq(S), NEW t \in Seq(S), t # <<>>
    PROVE  Append(s, Head(t)) \o Tail(t) = s \o t
<1>1. Head(t) \in S /\ Tail(t) \in Seq(S) /\ <<Head(t)>> \in Seq(S)
  BY HeadTailProperties
<1>2. t = <<Head(t)>> \o Tail(t)
  BY HeadTailProperties, <1>1
<1>3. Append(s, Head(t)) = s \o <<Head(t)>>
  BY <1>1, AppendIsConcat
<1>4. (s \o <<Head(t)>>) \o Tail(t) = s \o (<<Head(t)>> \o Tail(t))
  BY <1>1, ConcatAssociative
<1> QED
  BY <1>2, <1>3, <1>4, Zenon

LEMMA ConcatAppend ==
    ASSUME NEW S, NEW s \in Seq(S), NEW t \in Seq(S), NEW x \in S
    PROVE  s \o Append(t, x) = Append(s \o t, x)
<1>1. <<x>> \in Seq(S) /\ s \o t \in Seq(S)
  BY ConcatProperties
<1>2. s \o (t \o <<x>>) = (s \o t) \o <<x>>
  BY <1>1, ConcatAssociative
<1> QED
  BY <1>1, <1>2, AppendIsConcat

\* One more element at the end of a part of a sequence.
LEMMA SubSeqAppend ==
    ASSUME NEW S, NEW s \in Seq(S), NEW m \in Nat \ {0}, NEW n \in Nat,
           m <= n + 1, n + 1 <= Len(s)
    PROVE  SubSeq(s, m, n) \in Seq(S) /\ s[n + 1] \in S
           /\ SubSeq(s, m, n + 1) = Append(SubSeq(s, m, n), s[n + 1])
<1>1. Len(s) \in Nat /\ n + 1 \in 1..Len(s) /\ m \in 1..(n + 1)
  BY LenProperties
<1>2. s[n + 1] \in S
  BY <1>1, ElementOfSeq
<1>3. SubSeq(s, m, n) \in Seq(S)
  <2>1. \A i \in m..n : s[i] \in S
    BY <1>1, ElementOfSeq
  <2> QED
    BY <2>1, SubSeqProperties
<1>4. SubSeq(s, m, n + 1) = SubSeq(s, m, n) \o <<s[n + 1]>>
  <2>1. n + 1 - 1 = n /\ m \in 1..Len(s) /\ n + 1 \in m..Len(s)
    BY <1>1
  <2> QED
    BY <2>1, SubSeqRecursiveSecond
<1> QED
  BY <1>2, <1>3, <1>4, AppendIsConcat

\* One element less at its beginning.
LEMMA SubSeqTail ==
    ASSUME NEW S, NEW s \in Seq(S), NEW m \in Nat \ {0}, NEW n \in Nat,
           m <= n, n <= Len(s)
    PROVE  SubSeq(s, m, n) \in Seq(S) /\ SubSeq(s, m, n) # <<>>
           /\ Head(SubSeq(s, m, n)) = s[m] /\ Tail(SubSeq(s, m, n)) = SubSeq(s, m + 1, n)
<1>1. Len(s) \in Nat /\ m \in 1..Len(s) /\ n \in m..Len(s)
  BY LenProperties
<1>2. \A i \in m..n : s[i] \in S
  BY <1>1, ElementOfSeq
<1>3. SubSeq(s, m, n) \in Seq(S) /\ Len(SubSeq(s, m, n)) = n - m + 1
  BY <1>2, SubSeqProperties
<1>4. SubSeq(s, m, n) # <<>>
  BY <1>3
<1> QED
  BY <1>1, <1>3, <1>4, HeadTailOfSubSeq

\* A sequence cut in two.
LEMMA SubSeqSplit ==
    ASSUME NEW S, NEW s \in Seq(S), NEW k \in 0..Len(s)
    PROVE  /\ SubSeq(s, 1, k) \in Seq(S) /\ SubSeq(s, k + 1, Len(s)) \in Seq(S)
           /\ SubSeq(s, 1, k) \o SubSeq(s, k + 1, Len(s)) = s
<1>1. Len(s) \in Nat /\ 1 \in 1..(Len(s) + 1) /\ k \in (1 - 1)..Len(s) /\ Len(s) \in k..Len(s)
  BY LenProperties
<1>2. SubSeq(s, 1, k) \o SubSeq(s, k + 1, Len(s)) = SubSeq(s, 1, Len(s))
  BY <1>1, ConcatAdjacentSubSeq
<1>3. (\A i \in 1..k : s[i] \in S) /\ (\A i \in (k + 1)..Len(s) : s[i] \in S)
  BY <1>1, ElementOfSeq
<1>4. SubSeq(s, 1, k) \in Seq(S)
  BY <1>1, <1>3, SubSeqProperties
<1>5. SubSeq(s, k + 1, Len(s)) \in Seq(S)
  BY <1>1, <1>3, SubSeqProperties
<1> QED
  BY <1>2, <1>4, <1>5, SubSeqFull

(***************************************************************************)
(* Prefixes                                                                *)
(***************************************************************************)
LEMMA PrefixElements ==
    ASSUME NEW S, NEW s \in Seq(S), NEW t \in Seq(S)
    PROVE  IsPrefixOf(s, t) <=> Len(s) <= Len(t) /\ \A i \in 1..Len(s) : s[i] = t[i]
<1>1. Len(s) \in Nat /\ Len(t) \in Nat
  BY LenProperties
<1>2. ASSUME Len(s) <= Len(t)
      PROVE  SubSeq(t, 1, Len(s)) = s <=> \A i \in 1..Len(s) : s[i] = t[i]
  <2>1. \A i \in 1..Len(s) : t[i] \in S
    BY <1>1, <1>2, ElementOfSeq
  <2>2. /\ SubSeq(t, 1, Len(s)) \in Seq(S) /\ Len(SubSeq(t, 1, Len(s))) = Len(s)
        /\ \A i \in 1..Len(s) : SubSeq(t, 1, Len(s))[i] = t[i]
    BY <1>1, <2>1, SubSeqProperties
  <2> QED
    BY <2>2, SeqEqual
<1> QED
  BY <1>2 DEF IsPrefixOf

LEMMA PrefixSame ==
    ASSUME NEW S, NEW s \in Seq(S)
    PROVE  IsPrefixOf(s, s)
BY SubSeqFull, LenProperties DEF IsPrefixOf

LEMMA PrefixOfConcat ==
    ASSUME NEW S, NEW s \in Seq(S), NEW t \in Seq(S)
    PROVE  IsPrefixOf(s, s \o t)
<1>1. /\ s \o t \in Seq(S) /\ Len(s \o t) = Len(s) + Len(t)
      /\ Len(s) \in Nat /\ Len(t) \in Nat
      /\ \A i \in 1..Len(s) + Len(t) :
            (s \o t)[i] = IF i <= Len(s) THEN s[i] ELSE t[i - Len(s)]
  BY ConcatProperties, LenProperties
<1>2. Len(s) <= Len(s \o t) /\ \A i \in 1..Len(s) : s[i] = (s \o t)[i]
  BY <1>1
<1> QED
  BY <1>1, <1>2, PrefixElements

LEMMA PrefixAppend ==
    ASSUME NEW S, NEW s \in Seq(S), NEW t \in Seq(S), NEW x \in S, IsPrefixOf(s, t)
    PROVE  IsPrefixOf(s, Append(t, x))
<1>1. /\ Append(t, x) \in Seq(S) /\ Len(Append(t, x)) = Len(t) + 1
      /\ \A i \in 1..Len(t) : Append(t, x)[i] = t[i]
  BY AppendProperties
<1>2. Len(s) \in Nat /\ Len(t) \in Nat
  BY LenProperties
<1>3. Len(s) <= Len(t) /\ \A i \in 1..Len(s) : s[i] = t[i]
  BY PrefixElements
<1>4. Len(s) <= Len(Append(t, x)) /\ \A i \in 1..Len(s) : s[i] = Append(t, x)[i]
  BY <1>1, <1>2, <1>3
<1> QED
  BY <1>1, <1>4, PrefixElements

LEMMA PrefixTail ==
    ASSUME NEW S, NEW s \in Seq(S), NEW t \in Seq(S), IsPrefixOf(s, t), s # <<>>
    PROVE  t # <<>> /\ Head(t) = Head(s) /\ IsPrefixOf(Tail(s), Tail(t))
<1>1. Len(s) <= Len(t) /\ \A i \in 1..Len(s) : s[i] = t[i]
  BY PrefixElements
<1>2. Len(s) \in Nat \ {0} /\ Head(s) = s[1] /\ Len(t) \in Nat
  BY HeadIsFirst, LenProperties
<1>3. t # <<>>
  BY <1>1, <1>2
<1>4. Head(t) = t[1]
  BY <1>3, HeadIsFirst
<1>5. /\ Tail(s) \in Seq(S) /\ Len(Tail(s)) = Len(s) - 1
      /\ \A i \in 1..(Len(s) - 1) : Tail(s)[i] = s[i + 1]
      /\ Tail(t) \in Seq(S) /\ Len(Tail(t)) = Len(t) - 1
      /\ \A i \in 1..(Len(t) - 1) : Tail(t)[i] = t[i + 1]
  BY <1>3, HeadTailProperties
<1>6. IsPrefixOf(Tail(s), Tail(t))
  <2>1. Len(Tail(s)) <= Len(Tail(t)) /\ \A i \in 1..Len(Tail(s)) : Tail(s)[i] = Tail(t)[i]
    BY <1>1, <1>2, <1>5
  <2> QED
    BY <1>5, <2>1, PrefixElements
<1> QED
  BY <1>1, <1>2, <1>3, <1>4, <1>6

LEMMA PrefixOfEmpty ==
    ASSUME NEW S, NEW s \in Seq(S), IsPrefixOf(s, <<>>)
    PROVE  s = <<>>
BY EmptySeq, LenProperties DEF IsPrefixOf

(***************************************************************************)
(* Pieces.  P is the set of pieces of the client, S what they are of.      *)
(***************************************************************************)
PiecesOf(S) == [of: S, first: BOOLEAN, last: BOOLEAN]

LEMMA CompletesType ==
    ASSUME NEW S, NEW p \in Seq(PiecesOf(S))
    PROVE  /\ Completes(p) \in Seq(S) /\ Len(Completes(p)) = Ended(p)
           /\ \A i \in 1..Ended(p) : Completes(p)[i] = p[i].of
           /\ Ended(p) \in 0..Len(p)
<1>1. Ended(p) \in Nat /\ Ended(p) <= Len(p)
  BY EmptySeq, LenProperties DEF Ended
<1>2. \A i \in 1..Ended(p) : p[i].of \in S
  <2>1. \A i \in 1..Len(p) : p[i] \in PiecesOf(S)
    BY ElementOfSeq
  <2>2. \A i \in 1..Ended(p) : i \in 1..Len(p)
    BY <1>1, LenProperties
  <2> QED
    BY <2>1, <2>2 DEF PiecesOf
<1> QED
  BY <1>1, <1>2, LenProperties DEF Completes

LEMMA CompletesNothing == Completes(<<>>) = <<>> /\ OnlyLastCut(<<>>)
BY DEF Completes, Ended, OnlyLastCut

\* A whole piece is taken from the front; q is the tail of p.
LEMMA EndedTail ==
    ASSUME NEW S, NEW p \in Seq(PiecesOf(S)), NEW q \in Seq(PiecesOf(S)),
           Len(p) \in Nat \ {0}, Len(q) = Len(p) - 1,
           \A i \in 1..Len(q) : q[i] = p[i + 1], p[1].last
    PROVE  Ended(p) = Ended(q) + 1 /\ Ended(p) \in 1..Len(p)
<1>1. p # <<>>
  BY EmptyIffLen0
<1>2. CASE Len(p) = 1
  <2>1. q = <<>>
    BY <1>2, EmptyIffLen0
  <2> QED
    BY <1>1, <1>2, <2>1 DEF Ended
<1>3. CASE Len(p) # 1
  <2>1. q # <<>> /\ q[Len(q)] = p[Len(p)]
    BY <1>3, EmptyIffLen0
  <2> QED
    BY <1>1, <1>3, <2>1 DEF Ended
<1> QED
  BY <1>2, <1>3

LEMMA CompletesWhole ==
    ASSUME NEW S, NEW p \in Seq(PiecesOf(S)), p # <<>>, Head(p).last, OnlyLastCut(p)
    PROVE  /\ Completes(p) # <<>> /\ Head(Completes(p)) = Head(p).of
           /\ Completes(Tail(p)) = Tail(Completes(p)) /\ OnlyLastCut(Tail(p))
<1>1. PICK q \in Seq(PiecesOf(S)) :
         /\ q = Tail(p) /\ Len(q) = Len(p) - 1
         /\ \A i \in 1..Len(q) : q[i] = p[i + 1]
  BY HeadTailProperties
<1>2. Len(p) \in Nat \ {0} /\ Head(p) = p[1]
  BY HeadIsFirst
<1>3. Ended(p) = Ended(q) + 1 /\ Ended(p) \in 1..Len(p)
  BY <1>1, <1>2, EndedTail
<1>4. /\ Completes(p) \in Seq(S) /\ Len(Completes(p)) = Ended(p)
      /\ \A i \in 1..Ended(p) : Completes(p)[i] = p[i].of
  BY CompletesType
<1>5. /\ Completes(q) \in Seq(S) /\ Len(Completes(q)) = Ended(q)
      /\ \A i \in 1..Ended(q) : Completes(q)[i] = q[i].of
      /\ Ended(q) \in 0..Len(q)
  BY CompletesType
<1>6. Completes(p) # <<>>
  BY <1>3, <1>4, EmptyIffLen0
<1>7. Head(Completes(p)) = Head(p).of
  BY <1>2, <1>3, <1>4, <1>6, HeadIsFirst
<1>8. PICK r \in Seq(S) :
         /\ r = Tail(Completes(p)) /\ Len(r) = Len(Completes(p)) - 1
         /\ \A i \in 1..Len(r) : r[i] = Completes(p)[i + 1]
  BY <1>4, <1>6, HeadTailProperties
<1>9. Len(r) = Ended(q) /\ \A i \in 1..Ended(q) : r[i] = Completes(q)[i]
  <2>1. Len(r) = Ended(q)
    BY <1>3, <1>4, <1>5, <1>8
  <2>2. ASSUME NEW i \in 1..Ended(q) PROVE r[i] = Completes(q)[i]
    <3>1. i \in 1..Len(r) /\ i \in 1..Len(q) /\ i + 1 \in 1..Ended(p)
      BY <1>2, <1>1, <1>3, <1>5, <2>1
    <3> QED
      BY <1>1, <1>4, <1>5, <1>8, <3>1
  <2> QED
    BY <2>1, <2>2
<1>10. Completes(q) = r
  BY <1>5, <1>9, SeqEqual
<1>11. OnlyLastCut(q)
  BY <1>1, <1>2 DEF OnlyLastCut
<1> QED
  BY <1>1, <1>6, <1>7, <1>8, <1>10, <1>11

\* A cut piece is the last one.
LEMMA CompletesCut ==
    ASSUME NEW S, NEW p \in Seq(PiecesOf(S)), p # <<>>, ~Head(p).last, OnlyLastCut(p)
    PROVE  Completes(p) = <<>> /\ Tail(p) = <<>>
<1>1. Len(p) \in Nat \ {0} /\ Head(p) = p[1]
  BY HeadIsFirst
<1>2. Len(p) = 1
  <2>1. Len(p) > 1 => 1 \in 1..(Len(p) - 1)
    BY <1>1
  <2>2. ~p[1].last
    BY <1>1
  <2>3. Len(p) > 1 => p[1].last
    BY <2>1 DEF OnlyLastCut
  <2>4. ~(Len(p) > 1)
    BY <2>2, <2>3, Zenon
  <2> QED
    BY <1>1, <2>4
<1>3. Ended(p) = 0
  BY <1>1, <1>2 DEF Ended
<1>4. Tail(p) \in Seq(PiecesOf(S)) /\ Len(Tail(p)) = 0
  BY <1>2, HeadTailProperties
<1>5. Completes(p) \in Seq(S) /\ Len(Completes(p)) = 0
  BY <1>3, CompletesType
<1> QED
  BY <1>4, <1>5, EmptySeq

\* What a read brings: k whole replies of s, and perhaps the beginning of the next.
LEMMA ChunkCompletes ==
    ASSUME NEW S, NEW s \in Seq(S), NEW k \in 0..Len(s), NEW more \in BOOLEAN,
           more => k < Len(s), NEW c \in Seq(PiecesOf(S)),
           Len(c) = k + (IF more THEN 1 ELSE 0),
           \A i \in 1..Len(c) : c[i].of = s[i] /\ (c[i].last <=> i <= k)
    PROVE  /\ OnlyLastCut(c) /\ Ended(c) = k
           /\ Completes(c) \o SubSeq(s, k + 1, Len(s)) = s
<1>1. k \in Nat /\ Len(s) \in Nat
  BY LenProperties
<1>2. OnlyLastCut(c)
  BY <1>1 DEF OnlyLastCut
<1>3. Ended(c) = k
  <2>1. CASE more
    <3>1. Len(c) = k + 1 /\ c # <<>>
      BY <1>1, <2>1, EmptySeq
    <3> QED
      BY <1>1, <3>1 DEF Ended
  <2>2. CASE ~more
    <3>1. Len(c) = k
      BY <1>1, <2>2
    <3>2. c # <<>> => c[Len(c)].last
      BY <1>1, <3>1, EmptySeq
    <3> QED
      BY <3>1, <3>2 DEF Ended
  <2> QED
    BY <2>1, <2>2
<1>4. /\ Completes(c) \in Seq(S) /\ Len(Completes(c)) = k
      /\ \A i \in 1..k : Completes(c)[i] = c[i].of /\ i \in 1..Len(c)
  BY <1>1, <1>3, CompletesType
<1>5. /\ SubSeq(s, 1, k) \in Seq(S) /\ Len(SubSeq(s, 1, k)) = k
      /\ \A i \in 1..k : SubSeq(s, 1, k)[i] = s[i]
  <2>1. \A i \in 1..k : s[i] \in S
    BY <1>1, ElementOfSeq
  <2> QED
    BY <1>1, <2>1, SubSeqProperties
<1>6. Completes(c) = SubSeq(s, 1, k)
  <2>1. \A i \in 1..k : Completes(c)[i] = SubSeq(s, 1, k)[i]
    BY <1>4, <1>5
  <2> QED
    BY <1>4, <1>5, <2>1, SeqEqual
<1> QED
  BY <1>2, <1>3, <1>6, SubSeqSplit
=============================================================================
