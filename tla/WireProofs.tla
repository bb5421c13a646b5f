---------------------------- MODULE WireProofs ----------------------------
(***************************************************************************)
(* What the parser returns, for streams of any replies cut anywhere, and   *)
(* what a server reads from the commands the client writes.                *)
(***************************************************************************)
EXTENDS RespGrammar, CommandEncoding, TLAPS, SequenceTheorems, WellFoundedInduction
-----------------------------------------------------------------------------
(* Induction and recursion over the numbers, as facts about sets: what is   *)
(* defined by recursion is a function that satisfies its equation.          *)

LEMMA SetInduction ==
    ASSUME NEW S, 0 \in S, \A n \in Nat : n \in S => n + 1 \in S
    PROVE  Nat \subseteq S
<1> DEFINE T == Nat \ S
           R == OpToRel(<, Nat)
<1>1. SUFFICES ASSUME T # {} PROVE FALSE
    OBVIOUS
<1>2. PICK x \in T : \A y \in T : ~(<<y, x>> \in R)
  <2>1. IsWellFoundedOn(R, Nat)
      BY NatLessThanWellFounded
  <2>2. T \subseteq Nat
      OBVIOUS
  <2> HIDE DEF T, R
  <2> QED BY <1>1, <2>1, <2>2, WFMin
<1>3. x \in Nat /\ x # 0
    OBVIOUS
<1>4. x - 1 \in Nat /\ x - 1 < x /\ (x - 1) + 1 = x
    BY <1>3
<1>5. <<x - 1, x>> \in R
    BY <1>3, <1>4 DEF OpToRel
<1>6. x - 1 \in S
    BY <1>2, <1>4, <1>5
<1> QED BY <1>3, <1>4, <1>6

\* What holds of a number when it does of all smaller ones holds of all.
LEMMA StrongInduction ==
    ASSUME NEW S, \A n \in Nat : (\A m \in 0..(n - 1) : m \in S) => n \in S
    PROVE  Nat \subseteq S
<1> DEFINE P == {n \in Nat : \A m \in 0..(n - 1) : m \in S}
<1>1. 0 \in P
    OBVIOUS
<1>2. ASSUME NEW n \in Nat, n \in P PROVE n + 1 \in P
  <2>1. n \in S
      BY <1>2
  <2> QED BY <1>2, <2>1
<1>3. Nat \subseteq P
  <2> HIDE DEF P
  <2> QED BY <1>1, <1>2, SetInduction
<1> QED BY <1>3

\* g follows the rule up to n: at stop it is base, elsewhere a step from where
\* parent leads.
Follows(g, n, stop, base, parent, step) ==
    \A k \in 0..n :
        g[k] = IF k \in stop THEN base[k] ELSE step[<<k, g[parent[k]]>>]

LEMMA FollowsOnce ==
    ASSUME NEW stop, NEW base, NEW parent \in [Nat -> Nat], NEW step,
           \A k \in Nat \ stop : parent[k] < k,
           NEW n \in Nat, NEW m \in Nat, NEW g, NEW h,
           Follows(g, n, stop, base, parent, step),
           Follows(h, m, stop, base, parent, step)
    PROVE  \A k \in Nat : k <= n /\ k <= m => g[k] = h[k]
<1> DEFINE S == {k \in Nat : k <= n /\ k <= m => g[k] = h[k]}
<1>1. ASSUME NEW k \in Nat, \A j \in 0..(k - 1) : j \in S PROVE k \in S
  <2>1. SUFFICES ASSUME k <= n, k <= m PROVE g[k] = h[k]
      OBVIOUS
  <2>2. /\ g[k] = IF k \in stop THEN base[k] ELSE step[<<k, g[parent[k]]>>]
        /\ h[k] = IF k \in stop THEN base[k] ELSE step[<<k, h[parent[k]]>>]
      BY <2>1 DEF Follows
  <2>3. CASE k \in stop
      BY <2>2, <2>3
  <2>4. CASE k \notin stop
    <3>1. parent[k] \in Nat /\ parent[k] < k
        BY <2>4
    <3>2. parent[k] \in S
        BY <1>1, <3>1
    <3>3. g[parent[k]] = h[parent[k]]
        BY <2>1, <3>1, <3>2
    <3> QED BY <2>2, <2>4, <3>3
  <2> QED BY <2>3, <2>4
<1> HIDE DEF S
<1>2. Nat \subseteq S
    BY <1>1, StrongInduction
<1> USE DEF S
<1> QED BY <1>2

Solves(f, stop, base, parent, step) ==
    \A k \in Nat : f[k] = IF k \in stop THEN base[k] ELSE step[<<k, f[parent[k]]>>]
Descends(stop, parent) == 0 \in stop /\ \A k \in Nat \ stop : parent[k] < k

LEMMA Recursion ==
    ASSUME NEW A, NEW stop, NEW base \in [Nat -> A], NEW parent \in [Nat -> Nat],
           NEW step \in [Nat \X A -> A],
           Descends(stop, parent)
    PROVE  \E f \in [Nat -> A] : Solves(f, stop, base, parent, step)
<1> USE DEF Descends
<1> DEFINE Upto(g, n) == Follows(g, n, stop, base, parent, step)
           S == {n \in Nat : \E g \in [0..n -> A] : Upto(g, n)}
<1>1. 0 \in S
  <2> DEFINE g == [k \in 0..0 |-> base[0]]
  <2>1. g \in [0..0 -> A] /\ Upto(g, 0)
      BY DEF Follows
  <2> QED BY <2>1
<1>2. ASSUME NEW n \in Nat, n \in S PROVE n + 1 \in S
  <2>1. PICK g \in [0..n -> A] : Upto(g, n)
      BY <1>2
  <2> DEFINE p == n + 1
             last == IF p \in stop THEN base[p] ELSE step[<<p, g[parent[p]]>>]
             h == [k \in 0..p |-> IF k = p THEN last ELSE g[k]]
  <2>2. p \in Nat /\ p \notin 0..n
      OBVIOUS
  <2>3. ASSUME NEW k \in 0..p, k \notin stop PROVE parent[k] \in 0..n
    <3>1. k \in Nat /\ k <= n + 1
        OBVIOUS
    <3>2. parent[k] \in Nat /\ parent[k] < k
        BY <2>3, <3>1
    <3> QED BY <3>1, <3>2
  <2>4. last \in A
    <3>1. CASE p \in stop
        BY <2>2, <3>1
    <3>2. CASE p \notin stop
      <4>1. parent[p] \in 0..n
          BY <2>2, <2>3, <3>2
      <4>2. <<p, g[parent[p]]>> \in Nat \X A
          BY <2>2, <4>1
      <4> QED BY <3>2, <4>2
    <3> QED BY <3>1, <3>2
  <2>5. h \in [0..p -> A]
    <3> HIDE DEF last
    <3> QED BY <2>4
  <2>6. ASSUME NEW k \in 0..p
        PROVE  h[k] = IF k \in stop THEN base[k] ELSE step[<<k, h[parent[k]]>>]
    <3>1. ASSUME k \notin stop PROVE h[parent[k]] = g[parent[k]]
      <4>1. parent[k] \in 0..n
          BY <2>3, <3>1
      <4>2. parent[k] \in 0..p /\ parent[k] # p
          BY <2>2, <4>1
      <4> QED BY <4>2
    <3>2. CASE k = p
        BY <3>1, <3>2
    <3>3. CASE k # p
      <4>1. k \in 0..n
          BY <3>3
      <4>2. h[k] = g[k]
          BY <3>3
      <4> QED BY <2>1, <3>1, <4>1, <4>2 DEF Follows
    <3> QED BY <3>2, <3>3
  <2>7. Upto(h, p)
    <3> HIDE DEF h
    <3> QED BY <2>6 DEF Follows
  <2> QED BY <2>2, <2>5, <2>7
<1>3. Nat \subseteq S
  <2> HIDE DEF S
  <2> QED BY <1>1, <1>2, SetInduction
<1> DEFINE G(n) == CHOOSE g \in [0..n -> A] : Upto(g, n)
           f == [n \in Nat |-> G(n)[n]]
<1>4. ASSUME NEW n \in Nat PROVE G(n) \in [0..n -> A] /\ Upto(G(n), n)
    BY <1>3
<1> HIDE DEF G
<1>5. f \in [Nat -> A]
    BY <1>4
<1>6. ASSUME NEW k \in Nat
      PROVE  f[k] = IF k \in stop THEN base[k] ELSE step[<<k, f[parent[k]]>>]
  <2>1. G(k)[k] = IF k \in stop THEN base[k] ELSE step[<<k, G(k)[parent[k]]>>]
    <3>1. \A j \in 0..k : G(k)[j] = IF j \in stop THEN base[j]
                                  ELSE step[<<j, G(k)[parent[j]]>>]
        BY <1>4 DEF Follows
    <3>2. k \in 0..k
        OBVIOUS
    <3> HIDE DEF f
    <3> QED BY <3>1, <3>2
  <2>2. CASE k \in stop
      BY <2>1, <2>2
  <2>3. CASE k \notin stop
    <3>1. parent[k] \in Nat /\ parent[k] < k
        BY <2>3
    <3> DEFINE q == parent[k]
    <3>2. \A j \in Nat : j <= k /\ j <= q => G(k)[j] = G(q)[j]
      <4>1. Upto(G(k), k) /\ Upto(G(q), q)
          BY <1>4, <3>1
      <4> HIDE DEF q
      <4> QED BY <3>1, <4>1, FollowsOnce DEF q
    <3>3. G(k)[q] = f[q]
        BY <3>1, <3>2
    <3> QED BY <2>1, <2>3, <3>3
  <2> QED BY <2>2, <2>3
<1>7. Solves(f, stop, base, parent, step)
  <2> HIDE DEF f
  <2> QED BY <1>6 DEF Solves
<1> QED BY <1>5, <1>7
-----------------------------------------------------------------------------
(* The stream: where each reply ends, and which byte is at a place.         *)

EndsOf(rs) ==
    LET e[k \in 0..Len(rs)] == IF k = 0 THEN 0 ELSE e[k - 1] + Len(rs[k].wire)
    IN  e
ByteOf(rs, i) ==
    LET k == CHOOSE k \in 1..Len(rs) : EndsOf(rs)[k - 1] < i /\ i <= EndsOf(rs)[k]
    IN  rs[k].wire[i - EndsOf(rs)[k - 1]]

LEMMA EndIs == End = EndsOf(replies)
BY DEF End, EndsOf

LEMMA ByteIs == ASSUME NEW i PROVE ByteAt(i) = ByteOf(replies, i)
BY EndIs DEF ByteAt, ByteOf

LEMMA EndsOfIs ==
    ASSUME NEW rs \in Seq(Replies)
    PROVE  /\ EndsOf(rs) \in [0..Len(rs) -> Nat]
           /\ EndsOf(rs)[0] = 0
           /\ \A k \in 1..Len(rs) : EndsOf(rs)[k] = EndsOf(rs)[k - 1] + Len(rs[k].wire)
<1> DEFINE N == Len(rs)
           stop == {0}
           base == [n \in Nat |-> 0]
           parent == [n \in Nat |-> IF n = 0 THEN 0 ELSE n - 1]
           width == [n \in Nat |-> IF n \in 1..N THEN Len(rs[n].wire) ELSE 0]
           step == [p \in Nat \X Nat |-> p[2] + width[p[1]]]
<1>1. width \in [Nat -> Nat]
  <2>1. \A n \in 1..N : Len(rs[n].wire) \in Nat
      BY RepliesAssumption, ElementOfSeq, LenProperties
  <2> QED BY <2>1
<1> HIDE DEF width
<1>2. PICK f \in [Nat -> Nat] : Solves(f, stop, base, parent, step)
  <2>1. base \in [Nat -> Nat] /\ parent \in [Nat -> Nat]
      OBVIOUS
  <2>2. step \in [Nat \X Nat -> Nat]
    <3>1. ASSUME NEW p \in Nat \X Nat PROVE p[2] + width[p[1]] \in Nat
      <4>1. p[1] \in Nat /\ p[2] \in Nat
          OBVIOUS
      <4>2. width[p[1]] \in Nat
          BY <1>1, <4>1
      <4> QED BY <4>1, <4>2
    <3> QED BY <3>1
  <2>3. Descends(stop, parent)
      BY DEF Descends
  <2> HIDE DEF base, parent, step, stop
  <2> QED BY <2>1, <2>2, <2>3, Recursion
<1>3. f[0] = 0 /\ \A k \in Nat \ {0} : f[k] = f[k - 1] + width[k]
  <2>1. f[0] = 0
      BY <1>2 DEF Solves
  <2>2. ASSUME NEW k \in Nat \ {0} PROVE f[k] = f[k - 1] + width[k]
    <3>1. parent[k] = k - 1 /\ k - 1 \in Nat /\ f[k - 1] \in Nat
        OBVIOUS
    <3>2. f[k] = step[<<k, f[k - 1]>>]
        BY <1>2, <3>1 DEF Solves
    <3> QED BY <3>1, <3>2
  <2> QED BY <2>1, <2>2
<1>4. N \in Nat
    BY LenProperties
<1> DEFINE Eq(e) == e = [k \in 0..N |-> IF k = 0 THEN 0 ELSE e[k - 1] + Len(rs[k].wire)]
           g == [k \in 0..N |-> f[k]]
<1>5. Eq(g)
  <2>1. ASSUME NEW k \in 0..N PROVE g[k] = IF k = 0 THEN 0 ELSE g[k - 1] + Len(rs[k].wire)
    <3>1. CASE k = 0
        BY <1>3, <3>1
    <3>2. CASE k # 0
      <4>1. k \in 1..N /\ k - 1 \in 0..N /\ k \in Nat \ {0}
          BY <1>4, <3>2
      <4>2. width[k] = Len(rs[k].wire)
          BY <4>1 DEF width
      <4> QED BY <1>3, <3>2, <4>1, <4>2
    <3> QED BY <3>1, <3>2
  <2> DEFINE h == [k \in 0..N |-> IF k = 0 THEN 0 ELSE g[k - 1] + Len(rs[k].wire)]
  <2>2. \A k \in 0..N : g[k] = h[k]
    <3> HIDE DEF g
    <3> QED BY <2>1
  <2>3. g = h
    <3>1. g = [k \in 0..N |-> g[k]] /\ h = [k \in 0..N |-> h[k]]
        OBVIOUS
    <3> HIDE DEF g, h
    <3> QED BY <2>2, <3>1
  <2> QED BY <2>3
<1>6. Eq(EndsOf(rs))
  <2>1. EndsOf(rs) = CHOOSE e : Eq(e)
      BY DEF EndsOf
  <2> HIDE DEF Eq
  <2> QED BY <1>5, <2>1
<1> DEFINE E == EndsOf(rs)
<1> HIDE DEF E
<1>7. /\ E = [k \in 0..N |-> E[k]] /\ E[0] = 0
      /\ \A k \in 1..N : E[k] = E[k - 1] + width[k]
  <2>1. Eq(E)
      BY <1>6 DEF E
  <2>2. E[0] = 0
      BY <1>4, <2>1
  <2>3. ASSUME NEW k \in 1..N PROVE E[k] = E[k - 1] + Len(rs[k].wire)
    <3>1. k \in 0..N /\ k # 0
        BY <1>4
    <3> QED BY <2>1, <3>1
  <2>4. \A k \in 1..N : width[k] = Len(rs[k].wire)
      BY <1>4 DEF width
  <2> QED BY <2>1, <2>2, <2>3, <2>4
<1>8. \A k \in 0..N : E[k] \in Nat
  <2> DEFINE S == {k \in Nat : k \in 0..N => E[k] \in Nat}
  <2>1. 0 \in S
      BY <1>7
  <2>2. ASSUME NEW k \in Nat, k \in S PROVE k + 1 \in S
    <3>1. SUFFICES ASSUME k + 1 \in 0..N PROVE E[k + 1] \in Nat
        OBVIOUS
    <3>2. k \in 0..N /\ k + 1 \in 1..N /\ (k + 1) - 1 = k
        BY <1>4, <3>1
    <3>3. E[k] \in Nat /\ width[k + 1] \in Nat
        BY <1>1, <2>2, <3>2
    <3>4. E[k + 1] = E[k] + width[k + 1]
        BY <1>7, <3>2
    <3>5. \A a, b \in Nat : a + b \in Nat
        OBVIOUS
    <3> QED BY <3>3, <3>4, <3>5
  <2> HIDE DEF S
  <2>3. Nat \subseteq S
      BY <2>1, <2>2, SetInduction
  <2> USE DEF S
  <2> QED BY <1>4, <2>3
<1>9. \A k \in 1..N : width[k] = Len(rs[k].wire)
    BY <1>4 DEF width
<1> QED BY <1>7, <1>8, <1>9 DEF E

LEMMA EndsMonotone ==
    ASSUME NEW rs \in Seq(Replies), NEW j \in 0..Len(rs), NEW k \in 0..Len(rs), j <= k
    PROVE  EndsOf(rs)[j] <= EndsOf(rs)[k]
<1> DEFINE E == EndsOf(rs)
<1>1. /\ Len(rs) \in Nat /\ E \in [0..Len(rs) -> Nat]
      /\ \A n \in 1..Len(rs) : E[n] = E[n - 1] + Len(rs[n].wire) /\ Len(rs[n].wire) \in Nat
  <2>1. \A n \in 1..Len(rs) : Len(rs[n].wire) \in Nat
      BY RepliesAssumption, ElementOfSeq, LenProperties
  <2> QED BY <2>1, EndsOfIs, LenProperties
<1> HIDE DEF E
<1> DEFINE S == {n \in Nat : j <= n /\ n <= Len(rs) => E[j] <= E[n]}
<1>2. 0 \in S
    BY <1>1
<1>3. ASSUME NEW n \in Nat, n \in S PROVE n + 1 \in S
  <2>1. SUFFICES ASSUME j <= n + 1, n + 1 <= Len(rs) PROVE E[j] <= E[n + 1]
      OBVIOUS
  <2>2. CASE j = n + 1
    <3>1. E[j] \in Nat
        BY <1>1
    <3> QED BY <2>2, <3>1
  <2>3. CASE j <= n
    <3>1. n + 1 \in 1..Len(rs) /\ (n + 1) - 1 = n /\ n \in 0..Len(rs)
        BY <1>1, <2>1
    <3>2. E[j] <= E[n] /\ E[j] \in Nat /\ E[n] \in Nat
      <4>1. E[j] <= E[n]
        <5>1. n <= Len(rs)
            BY <1>1, <2>1
        <5> QED BY <1>3, <2>3, <5>1
      <4> QED BY <1>1, <3>1, <4>1
    <3>3. E[n + 1] = E[n] + Len(rs[n + 1].wire) /\ Len(rs[n + 1].wire) \in Nat
        BY <1>1, <3>1
    <3>4. \A a, b, d \in Nat : a <= b => a <= b + d
        OBVIOUS
    <3> QED BY <3>2, <3>3, <3>4
  <2> QED BY <2>1, <2>2, <2>3
<1> HIDE DEF S
<1>4. Nat \subseteq S
    BY <1>2, <1>3, SetInduction
<1> USE DEF S
<1> QED BY <1>1, <1>4 DEF E

LEMMA ByteOfIs ==
    ASSUME NEW rs \in Seq(Replies), NEW k \in 1..Len(rs), NEW i \in Nat,
           EndsOf(rs)[k - 1] < i, i <= EndsOf(rs)[k]
    PROVE  ByteOf(rs, i) = rs[k].wire[i - EndsOf(rs)[k - 1]]
<1> DEFINE E == EndsOf(rs)
<1>1. Len(rs) \in Nat /\ E \in [0..Len(rs) -> Nat]
    BY EndsOfIs, LenProperties
<1>2. \A a, b \in 0..Len(rs) : a <= b => E[a] <= E[b]
    BY EndsMonotone
<1> HIDE DEF E
<1>3. ASSUME NEW n \in 1..Len(rs), E[n - 1] < i, i <= E[n] PROVE n = k
  <2>1. E[k - 1] < i /\ i <= E[k]
      BY DEF E
  <2>2. n \in 0..Len(rs) /\ n - 1 \in 0..Len(rs) /\ k \in 0..Len(rs) /\ k - 1 \in 0..Len(rs)
      BY <1>1
  <2>3. ~(n < k)
    <3>1. SUFFICES ASSUME n < k PROVE FALSE
        OBVIOUS
    <3>2. E[n] <= E[k - 1]
        BY <1>2, <2>2, <3>1
    <3> QED BY <1>1, <1>3, <2>1, <2>2, <3>2
  <2>4. ~(k < n)
    <3>1. SUFFICES ASSUME k < n PROVE FALSE
        OBVIOUS
    <3>2. E[k] <= E[n - 1]
        BY <1>2, <2>2, <3>1
    <3> QED BY <1>1, <1>3, <2>1, <2>2, <3>2
  <2> QED BY <1>1, <2>3, <2>4
<1> DEFINE P(n) == E[n - 1] < i /\ i <= E[n]
           q == CHOOSE n \in 1..Len(rs) : P(n)
<1>4. P(k)
    BY DEF E
<1>5. q \in 1..Len(rs) /\ P(q)
  <2> HIDE DEF P
  <2> QED BY <1>4
<1>6. q = k
  <2> HIDE DEF q
  <2> QED BY <1>3, <1>5
<1>7. ByteOf(rs, i) = rs[q].wire[i - E[q - 1]]
    BY DEF ByteOf, E
<1> QED BY <1>6, <1>7 DEF E

LEMMA PlaceOf ==
    ASSUME NEW rs \in Seq(Replies), NEW i \in 1..EndsOf(rs)[Len(rs)]
    PROVE  \E k \in 1..Len(rs) : EndsOf(rs)[k - 1] < i /\ i <= EndsOf(rs)[k]
<1> DEFINE E == EndsOf(rs)
<1>1. Len(rs) \in Nat /\ E \in [0..Len(rs) -> Nat] /\ E[0] = 0
    BY EndsOfIs, LenProperties
<1> HIDE DEF E
<1> DEFINE S == {n \in Nat : n <= Len(rs) /\ i <= E[n]
                     => \E k \in 1..Len(rs) : E[k - 1] < i /\ i <= E[k]}
<1>2. i \in Nat /\ i > 0 /\ i <= E[Len(rs)]
  <2>1. E[Len(rs)] \in Nat
      BY <1>1
  <2> QED BY <2>1 DEF E
<1>3. 0 \in S
    BY <1>1, <1>2
<1>4. ASSUME NEW n \in Nat, n \in S PROVE n + 1 \in S
  <2>1. SUFFICES ASSUME n + 1 <= Len(rs), i <= E[n + 1]
                 PROVE  \E k \in 1..Len(rs) : E[k - 1] < i /\ i <= E[k]
      OBVIOUS
  <2>2. CASE i <= E[n]
      BY <1>1, <1>4, <2>1, <2>2
  <2>3. CASE ~(i <= E[n])
    <3>1. n + 1 \in 1..Len(rs) /\ (n + 1) - 1 = n /\ E[n] \in Nat
        BY <1>1, <2>1
    <3>2. E[(n + 1) - 1] < i
        BY <1>2, <2>3, <3>1
    <3> QED BY <2>1, <3>1, <3>2
  <2> QED BY <2>2, <2>3
<1> HIDE DEF S
<1>5. Nat \subseteq S
    BY <1>3, <1>4, SetInduction
<1> USE DEF S
<1> QED BY <1>1, <1>2, <1>5 DEF E

LEMMA ByteIsChar ==
    ASSUME NEW rs \in Seq(Replies), NEW i \in 1..EndsOf(rs)[Len(rs)]
    PROVE  ByteOf(rs, i) \in Char
<1> DEFINE E == EndsOf(rs)
<1>1. /\ Len(rs) \in Nat /\ E \in [0..Len(rs) -> Nat]
      /\ \A n \in 1..Len(rs) : E[n] = E[n - 1] + Len(rs[n].wire)
    BY EndsOfIs, LenProperties
<1>2. PICK k \in 1..Len(rs) : E[k - 1] < i /\ i <= E[k]
    BY PlaceOf
<1>3. i \in Nat
  <2>1. E[Len(rs)] \in Nat
      BY <1>1
  <2> QED BY <2>1
<1>4. ByteOf(rs, i) = rs[k].wire[i - E[k - 1]]
    BY <1>2, <1>3, ByteOfIs
<1> HIDE DEF E
<1>5. rs[k].wire \in Seq(Char)
    BY RepliesAssumption, ElementOfSeq
<1>6. i - E[k - 1] \in 1..Len(rs[k].wire)
  <2>1. E[k - 1] \in Nat /\ Len(rs[k].wire) \in Nat
    <3>1. k - 1 \in 0..Len(rs)
        BY <1>1
    <3>2. E[k - 1] \in Nat
        BY <1>1, <3>1
    <3> QED BY <1>5, <3>2, LenProperties
  <2>2. E[k] = E[k - 1] + Len(rs[k].wire)
      BY <1>1
  <2> QED BY <1>2, <1>3, <2>1, <2>2
<1> QED BY <1>4, <1>5, <1>6, ElementOfSeq
-----------------------------------------------------------------------------
(* Numbers.                                                                 *)

LEMMA ModRange == ASSUME NEW a \in Int, NEW m \in Nat \ {0} PROVE a % m \in 0..(m - 1)
OBVIOUS

LEMMA ModSmall == ASSUME NEW m \in Nat \ {0}, NEW a \in 0..(m - 1) PROVE a % m = a
OBVIOUS

LEMMA LongRange == ASSUME NEW n \in Int PROVE Long(n) \in -Half..(Half - 1)
<1> DEFINE m == 2 * Half
<1>1. Half \in Nat \ {0} /\ m \in Nat \ {0} /\ n + Half \in Int
    BY LongBitsAssumption
<1>2. (n + Half) % m \in 0..(m - 1)
  <2> HIDE DEF m
  <2> QED BY <1>1, ModRange
<1> QED BY <1>1, <1>2 DEF Long

LEMMA LongSmall == ASSUME NEW n \in -Half..(Half - 1) PROVE Long(n) = n
<1> DEFINE m == 2 * Half
<1>1. Half \in Nat \ {0} /\ m \in Nat \ {0} /\ n \in Int /\ n + Half \in 0..(m - 1)
    BY LongBitsAssumption
<1>2. (n + Half) % m = n + Half
  <2> HIDE DEF m
  <2> QED BY <1>1, ModSmall
<1>3. Long(n) = ((n + Half) % m) - Half
    BY DEF Long
<1> QED BY <1>1, <1>2, <1>3

LEMMA LongHalf == Long(Half) = -Half
<1> DEFINE m == 2 * Half
<1>1. Half \in Nat \ {0} /\ m \in Nat \ {0} /\ Half + Half = m
    BY LongBitsAssumption
<1>2. m % m = 0
  <2> HIDE DEF m
  <2> QED BY <1>1
<1>3. Long(Half) = ((Half + Half) % m) - Half
    BY DEF Long
<1> QED BY <1>1, <1>2, <1>3

LEMMA DigitRange == \A x \in Digit : DigitValue[x] \in 0..9
BY DEF DigitValue, Digit

LEMMA DigitExists == \A n \in 0..9 : \E x \in Digit : DigitValue[x] = n
BY DEF DigitValue, Digit

LEMMA SizeValues == \A x \in Digit \cup {"-"} : DigitValue[x] \in Int
BY DEF DigitValue, Digit

LEMMA DivMod ==
    ASSUME NEW n \in Nat
    PROVE  /\ n \div 10 \in Nat /\ n % 10 \in 0..9
           /\ n = (n \div 10) * 10 + (n % 10)
           /\ n >= 10 => n \div 10 < n
OBVIOUS

SizeChar == Digit \cup {"-"}

\* What the loop of bufferToLong has after each character.
Values(d) ==
    LET value[i \in 0..Len(d)] ==
            IF i = 0 THEN 0 ELSE Long(value[i - 1] * 10 + DigitValue[d[i]])
    IN  value

LEMMA ValuesAre ==
    ASSUME NEW d \in Seq(SizeChar)
    PROVE  /\ Values(d) \in [0..Len(d) -> Int]
           /\ Values(d)[0] = 0
           /\ \A k \in 1..Len(d) :
                  Values(d)[k] = Long(Values(d)[k - 1] * 10 + DigitValue[d[k]])
           /\ Magnitude(d) = Values(d)[Len(d)]
<1> DEFINE N == Len(d)
           stop == {0}
           base == [n \in Nat |-> 0]
           parent == [n \in Nat |-> IF n = 0 THEN 0 ELSE n - 1]
           dv == [n \in Nat |-> IF n \in 1..N THEN DigitValue[d[n]] ELSE 0]
           step == [p \in Nat \X Int |-> Long(p[2] * 10 + dv[p[1]])]
<1>1. dv \in [Nat -> Int]
  <2>1. \A n \in 1..N : DigitValue[d[n]] \in Int
      BY SizeValues, ElementOfSeq DEF SizeChar
  <2> QED BY <2>1
<1>2. N \in Nat /\ \A k \in 1..N : dv[k] = DigitValue[d[k]]
    BY LenProperties
<1> HIDE DEF dv
<1>3. PICK f \in [Nat -> Int] : Solves(f, stop, base, parent, step)
  <2>1. base \in [Nat -> Int] /\ parent \in [Nat -> Nat]
      OBVIOUS
  <2>2. step \in [Nat \X Int -> Int]
    <3>1. ASSUME NEW p \in Nat \X Int PROVE Long(p[2] * 10 + dv[p[1]]) \in Int
      <4>1. p[1] \in Nat /\ p[2] \in Int
          OBVIOUS
      <4>2. dv[p[1]] \in Int
          BY <1>1, <4>1
      <4>3. p[2] * 10 + dv[p[1]] \in Int
          BY <4>1, <4>2
      <4> QED BY <4>3, LongRange, LongBitsAssumption
    <3> QED BY <3>1
  <2>3. Descends(stop, parent)
      BY DEF Descends
  <2> HIDE DEF base, parent, step, stop
  <2> QED BY <2>1, <2>2, <2>3, Recursion
<1>4. f[0] = 0 /\ \A k \in Nat \ {0} : f[k] = Long(f[k - 1] * 10 + dv[k])
  <2>1. f[0] = 0
      BY <1>3 DEF Solves
  <2>2. ASSUME NEW k \in Nat \ {0} PROVE f[k] = Long(f[k - 1] * 10 + dv[k])
    <3>1. parent[k] = k - 1 /\ k - 1 \in Nat /\ f[k - 1] \in Int
        OBVIOUS
    <3>2. f[k] = step[<<k, f[k - 1]>>]
        BY <1>3, <3>1 DEF Solves
    <3> QED BY <3>1, <3>2
  <2> QED BY <2>1, <2>2
<1> DEFINE Eq(e) == e = [k \in 0..N |-> IF k = 0 THEN 0
                                        ELSE Long(e[k - 1] * 10 + DigitValue[d[k]])]
           g == [k \in 0..N |-> f[k]]
<1>5. Eq(g)
  <2> DEFINE h == [k \in 0..N |-> IF k = 0 THEN 0
                                  ELSE Long(g[k - 1] * 10 + DigitValue[d[k]])]
  <2>1. ASSUME NEW k \in 0..N PROVE g[k] = h[k]
    <3>1. CASE k = 0
        BY <1>4, <3>1
    <3>2. CASE k # 0
      <4>1. k \in 1..N /\ k - 1 \in 0..N /\ k \in Nat \ {0}
          BY <1>2, <3>2
      <4>2. f[k] = Long(f[k - 1] * 10 + DigitValue[d[k]])
          BY <1>2, <1>4, <4>1
      <4>3. g[k] = f[k] /\ g[k - 1] = f[k - 1]
          BY <4>1
      <4>4. h[k] = Long(g[k - 1] * 10 + DigitValue[d[k]])
          BY <3>2
      <4> QED BY <4>2, <4>3, <4>4
    <3> QED BY <3>1, <3>2
  <2>2. g = h
    <3>1. g = [k \in 0..N |-> g[k]] /\ h = [k \in 0..N |-> h[k]]
        OBVIOUS
    <3> HIDE DEF g, h
    <3> QED BY <2>1, <3>1
  <2> QED BY <2>2
<1> DEFINE V == Values(d)
<1>6. Eq(V)
  <2>1. V = CHOOSE e : Eq(e)
      BY DEF Values
  <2> HIDE DEF Eq, V
  <2> QED BY <1>5, <2>1
<1> HIDE DEF V
<1>7. V = [k \in 0..N |-> V[k]] /\ V[0] = 0
    BY <1>2, <1>6
<1>8. ASSUME NEW k \in 1..N PROVE V[k] = Long(V[k - 1] * 10 + DigitValue[d[k]])
  <2>1. k \in 0..N /\ k # 0
      BY <1>2
  <2> QED BY <1>6, <2>1
<1>9. \A k \in 0..N : V[k] \in Int
  <2> DEFINE S == {k \in Nat : k \in 0..N => V[k] \in Int}
  <2>1. 0 \in S
      BY <1>7
  <2>2. ASSUME NEW k \in Nat, k \in S PROVE k + 1 \in S
    <3>1. SUFFICES ASSUME k + 1 \in 0..N PROVE V[k + 1] \in Int
        OBVIOUS
    <3>2. k \in 0..N /\ k + 1 \in 1..N /\ (k + 1) - 1 = k
      <4> HIDE DEF N, S
      <4> QED BY <1>2, <3>1
    <3>3. V[k] \in Int /\ DigitValue[d[k + 1]] \in Int
      <4>1. DigitValue[d[k + 1]] \in Int
          BY <3>2, SizeValues, ElementOfSeq DEF SizeChar
      <4> QED BY <2>2, <3>2, <4>1
    <3>4. V[k + 1] = Long(V[k] * 10 + DigitValue[d[k + 1]])
        BY <1>8, <3>2
    <3>5. \A a, b \in Int : Long(a * 10 + b) \in Int
      <4>1. ASSUME NEW a \in Int, NEW b \in Int PROVE Long(a * 10 + b) \in Int
        <5>1. a * 10 + b \in Int
            OBVIOUS
        <5> QED BY <5>1, LongRange, LongBitsAssumption
      <4> QED BY <4>1
    <3> QED BY <3>3, <3>4, <3>5
  <2> HIDE DEF S
  <2>3. Nat \subseteq S
      BY <2>1, <2>2, SetInduction
  <2> USE DEF S
  <2> QED BY <1>2, <2>3
<1>10. Magnitude(d) = V[N]
    BY DEF Magnitude, Values, V
<1> QED BY <1>7, <1>8, <1>9, <1>10 DEF V

LEMMA MagnitudeIs ==
    ASSUME NEW d \in Seq(SizeChar), NEW x \in SizeChar
    PROVE  /\ Magnitude(d) \in Int
           /\ Magnitude(Append(d, x)) = Long(Magnitude(d) * 10 + DigitValue[x])
<1> DEFINE e == Append(d, x)
           V == Values(d)
           W == Values(e)
           N == Len(d)
<1>1. /\ N \in Nat /\ e \in Seq(SizeChar) /\ Len(e) = N + 1 /\ e[N + 1] = x
      /\ \A k \in 1..N : e[k] = d[k]
    BY AppendProperties, LenProperties
<1>2. /\ V \in [0..N -> Int] /\ V[0] = 0 /\ Magnitude(d) = V[N]
      /\ \A k \in 1..N : V[k] = Long(V[k - 1] * 10 + DigitValue[d[k]])
    BY ValuesAre
<1>3. /\ W[0] = 0 /\ Magnitude(e) = W[N + 1]
      /\ \A k \in 1..(N + 1) : W[k] = Long(W[k - 1] * 10 + DigitValue[e[k]])
  <2> HIDE DEF e
  <2> QED BY <1>1, ValuesAre
<1> HIDE DEF e, V, W
<1>4. V[N] = W[N]
  <2> DEFINE S == {k \in Nat : k <= N => V[k] = W[k]}
  <2>1. 0 \in S
      BY <1>2, <1>3
  <2>2. ASSUME NEW k \in Nat, k \in S PROVE k + 1 \in S
    <3>1. SUFFICES ASSUME k + 1 <= N PROVE V[k + 1] = W[k + 1]
        OBVIOUS
    <3>2. k + 1 \in 1..N /\ k + 1 \in 1..(N + 1) /\ (k + 1) - 1 = k /\ k <= N
        BY <1>1, <3>1
    <3>3. V[k] = W[k]
        BY <2>2, <3>2
    <3>4. V[k + 1] = Long(V[k] * 10 + DigitValue[d[k + 1]])
        BY <1>2, <3>2
    <3>5. W[k + 1] = Long(W[k] * 10 + DigitValue[e[k + 1]])
        BY <1>3, <3>2
    <3> QED BY <1>1, <3>2, <3>3, <3>4, <3>5
  <2> HIDE DEF S
  <2>3. Nat \subseteq S
      BY <2>1, <2>2, SetInduction
  <2> USE DEF S
  <2> QED BY <1>1, <2>3
<1>5. W[N + 1] = Long(W[N] * 10 + DigitValue[x])
    BY <1>1, <1>3
<1>6. V[N] \in Int
    BY <1>1, <1>2
<1> QED BY <1>2, <1>3, <1>4, <1>5, <1>6 DEF e

LEMMA MagnitudeOfNone == Magnitude(<<>>) = 0
BY ValuesAre, EmptySeq

LEMMA NumberIsInt ==
    ASSUME NEW d \in Seq(SizeChar)
    PROVE  bufferToLong(d) \in Int
<1>1. \A e \in Seq(SizeChar) : Magnitude(e) \in Int
    BY MagnitudeIs DEF SizeChar
<1>2. CASE d # <<>> /\ Head(d) = "-"
  <2>1. Tail(d) \in Seq(SizeChar)
      BY <1>2, HeadTailProperties
  <2>2. -Magnitude(Tail(d)) \in Int
    <3>1. Magnitude(Tail(d)) \in Int
        BY <1>1, <2>1
    <3>2. \A a \in Int : -a \in Int
        OBVIOUS
    <3> QED BY <3>1, <3>2
  <2>3. Long(-Magnitude(Tail(d))) \in Int
      BY <2>2, LongRange, LongBitsAssumption
  <2> QED BY <1>2, <2>3 DEF bufferToLong
<1>3. CASE ~(d # <<>> /\ Head(d) = "-")
    BY <1>1, <1>3 DEF bufferToLong
<1> QED BY <1>2, <1>3
-----------------------------------------------------------------------------
(* The kinds of the values, whatever the replies are.                       *)

LEMMA FunctionIsSeq ==
    ASSUME NEW S, NEW n \in Nat, NEW q \in [1..n -> S]
    PROVE  q \in Seq(S) /\ Len(q) = n
<1>1. q \in Seq(S)
    BY SeqDef
<1>2. DOMAIN q = 1..Len(q) /\ Len(q) \in Nat
    BY <1>1, LenProperties
<1>3. 1..Len(q) = 1..n
    BY <1>2
<1>4. Len(q) = n
  <2>1. CASE n = 0
      BY <1>2, <1>3, <2>1
  <2>2. CASE n # 0
      BY <1>2, <1>3, <2>2
  <2> QED BY <2>1, <2>2
<1> QED BY <1>1, <1>4

Numeric == {"Integer", "IntegerLF", "BulkSize", "BulkSizeLF"}
TypeInv ==
    /\ replies \in Seq(Replies)
    /\ hi \in 0..EndsOf(replies)[Len(replies)] /\ pos \in 0..hi
    /\ st \in Statement /\ bulkSize \in Int /\ rejected \in BOOLEAN
    /\ buf \in Seq(Char)
    /\ st \in Numeric => buf \in Seq(SizeChar)
    /\ st = "Bulk" => bulkSize > 0

LEMMA SizeIsNat ==
    TypeInv => EndsOf(replies)[Len(replies)] \in Nat /\ hi \in Nat /\ pos \in Nat
<1> SUFFICES ASSUME TypeInv PROVE EndsOf(replies)[Len(replies)] \in Nat /\ hi \in Nat /\ pos \in Nat
    OBVIOUS
<1> DEFINE N == Len(replies)
           E == EndsOf(replies)
<1>1. N \in Nat /\ E \in [0..N -> Nat]
    BY EndsOfIs, LenProperties DEF TypeInv
<1>2. E[N] \in Nat
  <2> HIDE DEF E, N
  <2> QED BY <1>1
<1>3. hi \in 0..E[N] /\ pos \in 0..hi
    BY DEF TypeInv
<1> HIDE DEF E, N
<1>4. E[N] \in Nat /\ hi \in Nat /\ pos \in Nat
    BY <1>2, <1>3
<1> QED BY <1>4 DEF E, N

LEMMA ByteAtIsChar ==
    ASSUME TypeInv, NEW i \in Nat \ {0}, i <= hi
    PROVE  ByteAt(i) \in Char
<1>1. i \in 1..EndsOf(replies)[Len(replies)] /\ replies \in Seq(Replies)
    BY SizeIsNat DEF TypeInv
<1>2. ByteOf(replies, i) \in Char
    BY <1>1, ByteIsChar
<1> QED BY <1>2, ByteIs

LEMMA BytesAreChars ==
    ASSUME TypeInv, NEW n \in Nat, NEW i \in Nat \ {0}, i + n - 1 <= hi
    PROVE  Bytes(i, i + n - 1) \in Seq(Char) /\ Len(Bytes(i, i + n - 1)) = n
<1>1. ASSUME NEW k \in 1..n PROVE ByteAt(i + k - 1) \in Char
  <2>1. i + k - 1 \in Nat \ {0} /\ i + k - 1 <= hi
      BY SizeIsNat
  <2> QED BY <2>1, ByteAtIsChar
<1>2. Bytes(i, i + n - 1) = [k \in 1..n |-> ByteAt(i + k - 1)]
  <2>1. (i + n - 1) - i + 1 = n
      OBVIOUS
  <2> QED BY <2>1 DEF Bytes
<1>3. Bytes(i, i + n - 1) \in [1..n -> Char]
    BY <1>1, <1>2
<1> QED BY <1>3, FunctionIsSeq

LEMMA TypeInit == Init => TypeInv
<1> SUFFICES ASSUME Init PROVE TypeInv
    OBVIOUS
<1>1. PICK n \in 1..MaxReplies : replies \in [1..n -> Replies]
    BY DEF Init
<1>2. replies \in Seq(Replies)
    BY <1>1, FunctionIsSeq, MaxRepliesAssumption
<1> DEFINE N == Len(replies)
           E == EndsOf(replies)
<1>3. N \in Nat /\ E \in [0..N -> Nat]
    BY <1>2, EndsOfIs, LenProperties
<1>4. E[N] \in Nat
  <2> HIDE DEF E, N
  <2> QED BY <1>3
<1>5. hi = 0 /\ pos = 0 /\ st = "Start" /\ buf = <<>> /\ bulkSize = 0 /\ rejected = FALSE
    BY DEF Init, ParserInit
<1>6. hi \in 0..E[N] /\ pos \in 0..hi
  <2> HIDE DEF E, N
  <2> QED BY <1>4, <1>5
<1>7. buf \in Seq(Char)
    BY <1>5, EmptySeq
<1>8. /\ st \in Statement /\ bulkSize \in Int /\ rejected \in BOOLEAN
      /\ st \notin Numeric /\ st # "Bulk"
  <2>1. st \in Statement /\ st \notin Numeric /\ st # "Bulk"
      BY <1>5 DEF Statement, Numeric
  <2>2. bulkSize \in Int
      BY <1>5
  <2>3. rejected \in BOOLEAN
      BY <1>5
  <2> QED BY <2>1, <2>2, <2>3
<1> QED BY <1>2, <1>6, <1>7, <1>8 DEF TypeInv

LEMMA TypeNext == TypeInv /\ [Next]_vars => TypeInv'
<1> SUFFICES ASSUME TypeInv, [Next]_vars PROVE TypeInv'
    OBVIOUS
<1> USE DEF TypeInv
<1>0. /\ EndsOf(replies)[Len(replies)] \in Nat /\ hi \in Nat /\ pos \in Nat
      /\ pos < hi => pos + 1 \in 0..hi /\ c \in Char
  <2>1. ASSUME pos < hi PROVE pos + 1 \in 0..hi /\ c \in Char
    <3>1. pos + 1 \in Nat \ {0} /\ pos + 1 <= hi
        BY <2>1, SizeIsNat
    <3>2. ByteAt(pos + 1) \in Char
        BY <3>1, ByteAtIsChar
    <3> QED BY <3>1, <3>2 DEF c
  <2> QED BY <2>1, SizeIsNat
\* A step that consumes the byte, and leaves st where buf is what it must be.
<1>1. ASSUME pos < hi, Consume(1), st' \in Statement \ {"Bulk"}, bulkSize' \in Int,
             rejected' \in BOOLEAN, buf' \in Seq(Char),
             st' \in Numeric => buf' \in Seq(SizeChar)
      PROVE  TypeInv'
    BY <1>0, <1>1 DEF Consume
<1>2. ASSUME NEW s \in {"String", "ErrorString"}, NEW end \in {"StringLF", "ErrorLF"},
             TextLine(s, end)
      PROVE  TypeInv'
  <2>1. pos < hi /\ Consume(1) /\ bulkSize' \in Int
      BY <1>2 DEF TextLine, In
  <2>2. st' \in Statement \ ({"Bulk"} \cup Numeric) /\ rejected' \in BOOLEAN
      BY <1>2 DEF TextLine, In, GoTo, Error, Statement, Numeric
  <2>3. buf' \in Seq(Char)
    <3>1. c \in Char
        BY <1>0, <2>1
    <3>2. Append(buf, c) \in Seq(Char)
        BY <3>1, AppendProperties
    <3> QED BY <1>2, <3>2 DEF TextLine
  <2> QED BY <1>1, <2>1, <2>2, <2>3
<1>3. ASSUME NEW s \in {"Integer", "BulkSize"}, NEW end \in {"IntegerLF", "BulkSizeLF"},
             NumberLine(s, end)
      PROVE  TypeInv'
  <2>1. pos < hi /\ Consume(1) /\ bulkSize' \in Int /\ buf \in Seq(SizeChar)
      BY <1>3 DEF NumberLine, In, Numeric
  <2>2. st' \in Statement \ {"Bulk"} /\ rejected' \in BOOLEAN
      BY <1>3 DEF NumberLine, In, GoTo, Error, Statement
  <2>3. buf' \in Seq(SizeChar) /\ buf' \in Seq(Char)
    <3>1. IsSizeChar(c) => c \in SizeChar /\ c \in Char
        BY DEF IsSizeChar, SizeChar, Char, Mark
    <3>2. IsSizeChar(c) => Append(buf, c) \in Seq(SizeChar) /\ Append(buf, c) \in Seq(Char)
        BY <2>1, <3>1, AppendProperties
    <3> QED BY <1>3, <2>1, <3>2 DEF NumberLine
  <2> QED BY <1>1, <2>1, <2>2, <2>3
\* The ends of lines that complete a value.
<1>4. ASSUME StringLF \/ ErrorLF \/ IntegerLF \/ BulkLF \/ BulkCR PROVE TypeInv'
  <2>1. pos < hi /\ Consume(1) /\ bulkSize' \in Int
      BY <1>4 DEF StringLF, ErrorLF, IntegerLF, BulkLF, BulkCR, Newline, In
  <2>2. st' \in {"Start", "BulkLF"} /\ rejected' \in BOOLEAN
      BY <1>4 DEF StringLF, ErrorLF, IntegerLF, BulkLF, BulkCR, Newline, In, Complete, Error, GoTo
  <2>3. buf' = buf \/ buf' = <<>>
      BY <1>4 DEF StringLF, ErrorLF, IntegerLF, BulkLF, BulkCR, Newline
  <2>4. buf' \in Seq(Char)
      BY <2>3, EmptySeq
  <2> QED BY <1>1, <2>1, <2>2, <2>4 DEF Statement, Numeric
<1>5. CASE Start
  <2>1. pos < hi /\ Consume(1) /\ bulkSize' \in Int /\ buf' = <<>>
      BY <1>5 DEF Start, In
  <2>2. st' \in Statement \ {"Bulk"} /\ rejected' \in BOOLEAN
    <3>1. c = "+" \/ c = "-" \/ c = ":" \/ c \in {"$", "*"}
          \/ (c # "+" /\ c # "-" /\ c # ":" /\ c \notin {"$", "*"})
        OBVIOUS
    <3> QED BY <1>5, <3>1 DEF Start, In, GoTo, Error, Statement
  <2>3. buf' \in Seq(Char) /\ buf' \in Seq(SizeChar)
      BY <2>1, EmptySeq
  <2> QED BY <1>1, <2>1, <2>2, <2>3
<1>6. CASE BulkSizeLF
  <2> DEFINE n == bufferToLong(buf)
  <2>1. pos < hi /\ n \in Int
    <3>1. pos < hi /\ st \in Numeric
        BY <1>6 DEF BulkSizeLF, Newline, In, Numeric
    <3> QED BY <3>1, NumberIsInt
  <2>2. CASE c # "LF"
    <3>1. Error /\ Consume(1) /\ UNCHANGED <<buf, bulkSize>>
        BY <1>6, <2>2 DEF BulkSizeLF, Newline
    <3>2. st' = "Start" /\ rejected' = TRUE
        BY <3>1 DEF Error
    <3> QED BY <1>1, <2>1, <3>1, <3>2 DEF Statement, Numeric
  <2>3. CASE c = "LF" /\ n <= 0
    <3>1. /\ buf' = <<>> /\ bulkSize' = n /\ Consume(1)
          /\ CASE n = -1 -> Complete(Nil) [] n = 0 -> GoTo("BulkCR") [] OTHER -> Error
      <4> HIDE DEF TypeInv
      <4> QED BY <1>6, <2>1, <2>3 DEF BulkSizeLF, Newline
    <3>2. st' \in {"Start", "BulkCR"} /\ rejected' \in BOOLEAN
      <4>1. n = -1 \/ n = 0 \/ (n # -1 /\ n # 0)
          OBVIOUS
      <4> HIDE DEF n
      <4> QED BY <3>1, <4>1 DEF Complete, GoTo, Error
    <3>3. buf' \in Seq(Char)
        BY <3>1, EmptySeq
    <3> QED BY <1>1, <2>1, <3>1, <3>2, <3>3 DEF Statement, Numeric
  <2>4. CASE c = "LF" /\ n > 0
    <3> DEFINE m == AvailableOf(n)
    <3>1. CopyFirst(n)
      <4> HIDE DEF TypeInv
      <4> QED BY <1>6, <2>1, <2>4 DEF BulkSizeLF, Newline
    <3>2. m \in Nat /\ m <= n /\ pos + 1 + m <= hi
        BY <1>0, <2>1, <2>4 DEF AvailableOf, MinOf
    <3>3. Bytes(pos + 2, pos + 1 + m) \in Seq(Char)
      <4>1. pos + 2 \in Nat \ {0} /\ (pos + 2) + m - 1 = pos + 1 + m
          BY <1>0, <3>2
      <4>2. Bytes(pos + 2, (pos + 2) + m - 1) \in Seq(Char)
        <5> HIDE DEF m, TypeInv
        <5> QED BY <3>2, <4>1, BytesAreChars
      <4> QED BY <4>1, <4>2
    <3>4. /\ buf' = Bytes(pos + 2, pos + 1 + m) /\ bulkSize' = n - m
          /\ Consume(1 + m) /\ GoTo(IF n > m THEN "Bulk" ELSE "BulkCR")
        BY <3>1 DEF CopyFirst
    <3> HIDE DEF m, n
    <3>5. st' \in Statement \ Numeric /\ (st' = "Bulk" => bulkSize' > 0) /\ bulkSize' \in Int
        BY <2>1, <3>2, <3>4 DEF GoTo, Statement, Numeric
    <3>6. pos' = pos + (1 + m) /\ UNCHANGED <<replies, hi>> /\ rejected' \in BOOLEAN
        BY <3>4 DEF Consume, GoTo
    <3>7. pos' \in 0..hi'
        BY <1>0, <3>2, <3>6
    <3> QED BY <3>3, <3>4, <3>5, <3>6, <3>7
  <2>5. n <= 0 \/ n > 0
      BY <2>1
  <2> QED BY <2>2, <2>3, <2>4, <2>5
<1>7. CASE Bulk
  <2> DEFINE m == MinOf(hi - pos, bulkSize)
  <2>1. /\ buf' = buf \o Bytes(pos + 1, pos + m) /\ bulkSize' = bulkSize - m
        /\ Consume(m) /\ GoTo(IF bulkSize = m THEN "BulkCR" ELSE "Bulk")
        /\ pos < hi /\ bulkSize > 0
      BY <1>7 DEF Bulk, In
  <2>2. m \in Nat /\ m <= bulkSize /\ pos + m <= hi
      BY <1>0, <2>1 DEF MinOf
  <2> HIDE DEF m
  <2>3. Bytes(pos + 1, pos + m) \in Seq(Char)
    <3>1. pos + 1 \in Nat \ {0} /\ (pos + 1) + m - 1 = pos + m
        BY <1>0, <2>2
    <3>2. Bytes(pos + 1, (pos + 1) + m - 1) \in Seq(Char)
      <4> HIDE DEF TypeInv
      <4> QED BY <2>2, <3>1, BytesAreChars
    <3> QED BY <3>1, <3>2
  <2>4. buf' \in Seq(Char)
      BY <2>1, <2>3, ConcatProperties
  <2>5. st' \in Statement \ Numeric /\ (st' = "Bulk" => bulkSize' > 0) /\ bulkSize' \in Int
      BY <2>1, <2>2 DEF GoTo, Statement, Numeric
  <2>6. pos' = pos + m /\ UNCHANGED <<replies, hi>> /\ rejected' \in BOOLEAN
      BY <2>1 DEF Consume, GoTo
  <2>7. pos' \in 0..hi'
      BY <1>0, <2>2, <2>6
  <2> QED BY <2>4, <2>5, <2>6, <2>7
<1>8. ASSUME NEW n \in 1..(End[Len(replies)] - hi), Deliver(n) PROVE TypeInv'
  <2>1. hi + n <= EndsOf(replies)[Len(replies)] /\ pos = hi /\ hi' = hi + n /\ n \in Nat
      BY <1>8, EndIs DEF Deliver
  <2>2. hi' \in 0..EndsOf(replies)[Len(replies)] /\ pos \in 0..hi'
      BY <1>0, <2>1
  <2> QED BY <1>8, <2>2 DEF Deliver
<1>9. CASE UNCHANGED vars
    BY <1>9 DEF vars
<1> QED
    BY <1>2, <1>3, <1>4, <1>5, <1>6, <1>7, <1>8, <1>9
       DEF Next, parseChunk, String, ErrorString, Integer, BulkSize

\* TypeInv holds in every state.
LEMMA TypeInvHolds == Spec => []TypeInv
BY TypeInit, TypeNext, PTL DEF Spec

\* The variables hold values of their kinds, and the parser never reads beyond
\* the bytes delivered: whatever the replies are, whatever size a bulk string
\* claims (a size the long int cannot hold wraps), and wherever they are cut.
THEOREM TypeCorrect == Spec => []TypeOK
<1>1. TypeInv => TypeOK
  <2> SUFFICES ASSUME TypeInv PROVE TypeOK
      OBVIOUS
  <2>1. \A i \in 1..Len(buf) : buf[i] \in Char
      BY ElementOfSeq DEF TypeInv
  <2>2. hi \in 0..End[Len(replies)]
      BY EndIs DEF TypeInv
  <2> QED BY <2>1, <2>2 DEF TypeInv, TypeOK
<1> QED BY <1>1, TypeInvHolds, PTL

\* assert(bulkSize > 0) of the case Bulk never fails, for any replies and cuts.
THEOREM BulkAssertCorrect == Spec => []BulkAssert
<1>1. TypeInv => BulkAssert
    BY DEF TypeInv, BulkAssert
<1> QED BY <1>1, TypeInvHolds, PTL
-----------------------------------------------------------------------------
(* One reply.  At: where the parser is after o bytes of the encoding w when  *)
(* it has neither completed a value nor found a mistake.  EndsAt: the o-th   *)
(* byte completes the value v.  WrongAt, of RespGrammar: it is the mistake.  *)

LineState(m) ==
    CASE m = "+" -> "String" [] m = "-" -> "ErrorString" [] m = ":" -> "Integer"
      [] OTHER -> "BulkSize"
LineLF(m) ==
    CASE m = "+" -> "StringLF" [] m = "-" -> "ErrorLF" [] m = ":" -> "IntegerLF"
      [] OTHER -> "BulkSizeLF"
LineValue(w, e) ==
    CASE w[1] = "+" -> StringOf(Piece(w, 1, e - 1))
      [] w[1] = "-" -> ErrorOf(Piece(w, 1, e - 1))
      [] OTHER -> IntOf(SizeIn(w, e))

\* In the body of a bulk string of n bytes, whose header's line ends at e.
InBody(w, e, n, o, s, b, z) ==
    \/ /\ s = "Bulk" /\ n > 0 /\ e + 2 <= o /\ o < e + 2 + n
       /\ b = Piece(w, e + 2, o - e - 2) /\ z = n - (o - e - 2)
    \/ s = "BulkCR" /\ n >= 0 /\ o = e + 2 + n /\ b = Piece(w, e + 2, n)
    \/ s = "BulkLF" /\ n >= 0 /\ o = e + 3 + n /\ b = Piece(w, e + 2, n) /\ w[o] = "CR"

At(w, o, s, b, z) ==
    \/ Run(w, o) /\ s = LineState(w[1]) /\ b = Piece(w, 1, o - 1)
    \/ o > 1 /\ CRAt(w, o - 1) /\ s = LineLF(w[1]) /\ b = Piece(w, 1, o - 2)
    \/ \E e \in 1..(o - 2) :
           Sized(w) /\ Header(w, e) /\ InBody(w, e, SizeIn(w, e), o, s, b, z)

Ending(w, e, n, o, v) ==
    \/ ~Sized(w) /\ o = e + 2 /\ v = LineValue(w, e)
    \/ Sized(w) /\ n = -1 /\ o = e + 2 /\ v = Nil
    \/ /\ Sized(w) /\ n >= 0 /\ o = e + n + 4 /\ w[o - 1] = "CR" /\ w[o] = "LF"
       /\ v = StringOf(Piece(w, e + 2, n))
EndsAt(w, o, v) ==
    \E e \in 1..(o - 2) : Header(w, e) /\ Ending(w, e, SizeIn(w, e), o, v)

LEMMA RunEnds ==
    ASSUME NEW w, NEW e, NEW f, Run(w, e), Run(w, f), ~InLine(w[1], w[e + 1])
    PROVE  f <= e
<1> SUFFICES ASSUME ~(f <= e) PROVE FALSE
    OBVIOUS
<1>1. e \in Nat /\ f \in Nat /\ e >= 1
    BY DEF Run
<1>2. e + 1 \in 2..f
    BY <1>1
<1> QED BY <1>2 DEF Run

LEMMA CREnds ==
    ASSUME NEW w, NEW e, CRAt(w, e)
    PROVE  Run(w, e) /\ ~InLine(w[1], w[e + 1]) /\ w[e + 1] = "CR" /\ e >= Least(w[1])
BY DEF CRAt, InLine, IsTextChar, IsSizeChar, Control, Digit

\* There is one place where the line of w ends.
LEMMA OneCR ==
    ASSUME NEW w, NEW e, NEW f, CRAt(w, e), CRAt(w, f)
    PROVE  e = f
<1>1. e <= f /\ f <= e /\ e \in Nat /\ f \in Nat
    BY CREnds, RunEnds DEF Run
<1> QED BY <1>1

LEMMA SizeIsInt ==
    ASSUME NEW w, NEW e, CRAt(w, e), w[1] \notin {"+", "-"}
    PROVE  SizeIn(w, e) \in Int /\ Piece(w, 1, e - 1) \in Seq(SizeChar)
<1>1. e \in Nat /\ e - 1 \in Nat /\ \A i \in 2..e : w[i] \in SizeChar
    BY DEF CRAt, Run, InLine, IsSizeChar, SizeChar
<1>2. ASSUME NEW j \in 1..(e - 1) PROVE w[1 + j] \in SizeChar
  <2>1. 1 + j \in 2..e
      BY <1>1
  <2> QED BY <1>1, <2>1
<1>3. Piece(w, 1, e - 1) \in [1..(e - 1) -> SizeChar]
    BY <1>2 DEF Piece
<1>4. Piece(w, 1, e - 1) \in Seq(SizeChar)
    BY <1>1, <1>3, FunctionIsSeq
<1> QED BY <1>4, NumberIsInt DEF SizeIn

LEMMA OneEnd ==
    ASSUME NEW w, NEW o, NEW p, NEW v, NEW u, EndsAt(w, o, v), EndsAt(w, p, u)
    PROVE  o = p /\ v = u
<1>1. PICK e \in 1..(o - 2) : Header(w, e) /\ Ending(w, e, SizeIn(w, e), o, v)
    BY DEF EndsAt
<1>2. PICK f \in 1..(p - 2) : Header(w, f) /\ Ending(w, f, SizeIn(w, f), p, u)
    BY DEF EndsAt
<1>3. e = f
    BY <1>1, <1>2, OneCR DEF Header
<1> DEFINE n == SizeIn(w, e)
<1>4. Ending(w, e, n, o, v) /\ Ending(w, e, n, p, u)
    BY <1>1, <1>2, <1>3
<1>5. Sized(w) => n \in Int
    BY <1>1, SizeIsInt DEF Header, Sized
<1> HIDE DEF n
<1> QED BY <1>4, <1>5 DEF Ending

LEMMA EndIsNotWrong ==
    ASSUME NEW w, NEW o, NEW p, NEW v, EndsAt(w, o, v), WrongAt(w, p)
    PROVE  FALSE
<1>1. PICK e \in 1..(o - 2) : Header(w, e) /\ Ending(w, e, SizeIn(w, e), o, v)
    BY DEF EndsAt
<1> DEFINE n == SizeIn(w, e)
<1>2. /\ CRAt(w, e) /\ w[e + 2] = "LF" /\ Run(w, e) /\ ~InLine(w[1], w[e + 1])
      /\ w[e + 1] = "CR" /\ e >= Least(w[1]) /\ e \in Nat
    BY <1>1, CREnds DEF Header
<1>3. CASE p = 1 /\ w[1] \notin Mark
    BY <1>2, <1>3 DEF Run
<1>4. ASSUME NEW f \in 1..(p - 1), Run(w, f), ~InLine(w[1], w[f + 1]),
             w[f + 1] = "CR" => f < Least(w[1])
      PROVE  FALSE
  <2>1. e <= f /\ f <= e /\ f \in Nat
      BY <1>2, <1>4, RunEnds DEF Run
  <2>2. e = f
      BY <1>2, <2>1
  <2>3. Least(w[1]) \in Nat
      BY DEF Least
  <2> QED BY <1>2, <1>4, <2>2, <2>3
<1>5. ASSUME NEW f \in 1..(p - 2), CRAt(w, f),
             \/ p = f + 2 /\ w[p] # "LF"
             \/ Sized(w) /\ w[f + 2] = "LF" /\ WrongBody(w, f, SizeIn(w, f), p)
      PROVE  FALSE
  <2>1. e = f
      BY <1>2, <1>5, OneCR
  <2>2. Sized(w) /\ WrongBody(w, e, n, p)
      BY <1>2, <1>5, <2>1
  <2>3. n \in Int /\ Ending(w, e, n, o, v)
      BY <1>1, <1>2, <2>2, SizeIsInt DEF Sized
  <2> HIDE DEF n
  <2>4. n >= 0 /\ o = e + n + 4 /\ w[o - 1] = "CR" /\ w[o] = "LF"
      BY <1>2, <2>2, <2>3 DEF Ending, WrongBody
  <2>5. o - 1 = e + n + 3
      BY <1>2, <2>3, <2>4
  <2> QED BY <1>2, <2>2, <2>3, <2>4, <2>5 DEF WrongBody
<1> QED BY <1>3, <1>4, <1>5 DEF WrongAt

LEMMA AtBeforeEnd ==
    ASSUME NEW w, NEW o \in Nat, NEW s, NEW b, NEW z, NEW p, NEW v,
           At(w, o, s, b, z), EndsAt(w, p, v), p \in Nat
    PROVE  o < p
<1>1. PICK e \in 1..(p - 2) : Header(w, e) /\ Ending(w, e, SizeIn(w, e), p, v)
    BY DEF EndsAt
<1> DEFINE n == SizeIn(w, e)
<1>2. CRAt(w, e) /\ Run(w, e) /\ ~InLine(w[1], w[e + 1]) /\ e \in Nat /\ e + 2 <= p
    BY <1>1, CREnds DEF Header
<1>3. CASE Run(w, o)
  <2>1. o <= e
      BY <1>2, <1>3, RunEnds
  <2> QED BY <1>2, <2>1
<1>4. CASE o > 1 /\ CRAt(w, o - 1)
  <2>1. o - 1 = e
      BY <1>2, <1>4, OneCR
  <2> QED BY <1>2, <2>1
<1>5. ASSUME NEW f \in 1..(o - 2), Sized(w), Header(w, f),
             InBody(w, f, SizeIn(w, f), o, s, b, z)
      PROVE  o < p
  <2>1. e = f
      BY <1>2, <1>5, OneCR DEF Header
  <2>2. InBody(w, e, n, o, s, b, z) /\ Ending(w, e, n, p, v)
      BY <1>1, <1>5, <2>1
  <2>3. n \in Int
      BY <1>2, <1>5, SizeIsInt DEF Sized
  <2> HIDE DEF n
  <2>4. n >= 0 /\ o <= e + n + 3
      BY <1>2, <2>2, <2>3 DEF InBody
  <2>5. p = e + n + 4
      BY <1>2, <1>5, <2>2, <2>3, <2>4 DEF Ending
  <2> QED BY <1>2, <2>3, <2>4, <2>5
<1> QED BY <1>3, <1>4, <1>5 DEF At

LEMMA AtBeforeWrong ==
    ASSUME NEW w, NEW o \in Nat, NEW s, NEW b, NEW z, NEW p \in Nat,
           At(w, o, s, b, z), WrongAt(w, p)
    PROVE  o < p
<1>1. CASE p = 1 /\ w[1] \notin Mark
  <2>1. Run(w, o) \/ (\E f : CRAt(w, f))
      BY DEF At, Header
  <2> QED BY <1>1, <2>1 DEF CRAt, Run
<1>2. ASSUME NEW e \in 1..(p - 1), Run(w, e), p = e + 1, ~InLine(w[1], w[e + 1]),
             w[e + 1] = "CR" => e < Least(w[1])
      PROVE  o < p
  <2>1. ASSUME NEW f, CRAt(w, f) PROVE FALSE
    <3>1. e <= f /\ f <= e /\ f \in Nat /\ w[f + 1] = "CR" /\ f >= Least(w[1])
        BY <1>2, <2>1, CREnds, RunEnds DEF Run
    <3>2. e = f
        BY <3>1
    <3>3. Least(w[1]) \in Nat
        BY DEF Least
    <3> QED BY <1>2, <3>1, <3>2, <3>3
  <2>2. Run(w, o)
      BY <2>1 DEF At, Header
  <2>3. o <= e
      BY <1>2, <2>2, RunEnds
  <2> QED BY <1>2, <2>3
<1>3. ASSUME NEW e \in 1..(p - 2), CRAt(w, e),
             \/ p = e + 2 /\ w[p] # "LF"
             \/ Sized(w) /\ w[e + 2] = "LF" /\ WrongBody(w, e, SizeIn(w, e), p)
      PROVE  o < p
  <2>1. Run(w, e) /\ ~InLine(w[1], w[e + 1]) /\ e \in Nat /\ e + 2 <= p
      BY <1>3, CREnds
  <2>2. CASE Run(w, o)
    <3>1. o <= e
        BY <2>1, <2>2, RunEnds
    <3> QED BY <2>1, <3>1
  <2>3. CASE o > 1 /\ CRAt(w, o - 1)
    <3>1. o - 1 = e
        BY <1>3, <2>3, OneCR
    <3> QED BY <2>1, <3>1
  <2>4. ASSUME NEW f \in 1..(o - 2), Sized(w), Header(w, f),
               InBody(w, f, SizeIn(w, f), o, s, b, z)
        PROVE  o < p
    <3> DEFINE n == SizeIn(w, e)
    <3>1. e = f
        BY <1>3, <2>4, OneCR DEF Header
    <3>2. w[e + 2] = "LF"
        BY <2>4, <3>1 DEF Header
    <3>3. InBody(w, e, n, o, s, b, z) /\ WrongBody(w, e, n, p)
        BY <1>3, <2>4, <3>1, <3>2
    <3>4. n \in Int
        BY <1>3, <2>4, SizeIsInt DEF Sized
    <3> HIDE DEF n
    <3>5. n >= 0 /\ o <= e + n + 3 /\ (o = e + n + 3 => w[o] = "CR")
        BY <2>1, <3>3, <3>4 DEF InBody
    <3>6. (p = e + n + 3 /\ w[p] # "CR") \/ p = e + n + 4
        BY <2>1, <3>3, <3>4, <3>5 DEF WrongBody
    <3> QED BY <2>1, <3>4, <3>5, <3>6
  <2> QED BY <2>2, <2>3, <2>4 DEF At
<1> QED BY <1>1, <1>2, <1>3 DEF WrongAt

\* Pieces of an encoding.
LEMMA PieceIs ==
    ASSUME NEW w \in Seq(Char), NEW i \in Nat, NEW n \in Nat, i + n <= Len(w)
    PROVE  Piece(w, i, n) \in Seq(Char) /\ Len(Piece(w, i, n)) = n
<1>1. ASSUME NEW j \in 1..n PROVE w[i + j] \in Char
  <2>1. i + j \in 1..Len(w)
      BY LenProperties
  <2> QED BY <2>1, ElementOfSeq
<1>2. Piece(w, i, n) \in [1..n -> Char]
    BY <1>1 DEF Piece
<1> QED BY <1>2, FunctionIsSeq

LEMMA NoPiece == ASSUME NEW w, NEW i PROVE Piece(w, i, 0) = <<>>
<1>1. Piece(w, i, 0) \in [1..0 -> Char]
    BY DEF Piece
<1>2. Piece(w, i, 0) \in Seq(Char) /\ Len(Piece(w, i, 0)) = 0
    BY <1>1, FunctionIsSeq
<1> QED BY <1>2, EmptySeq

LEMMA PiecesJoin ==
    ASSUME NEW w \in Seq(Char), NEW i \in Nat, NEW n \in Nat, NEW m \in Nat,
           i + n + m <= Len(w)
    PROVE  Piece(w, i, n) \o Piece(w, i + n, m) = Piece(w, i, n + m)
<1> DEFINE a == Piece(w, i, n)
           b == Piece(w, i + n, m)
           d == Piece(w, i, n + m)
<1>1. /\ a \in Seq(Char) /\ Len(a) = n /\ \A j \in 1..n : a[j] = w[i + j]
      /\ b \in Seq(Char) /\ Len(b) = m /\ \A j \in 1..m : b[j] = w[i + n + j]
      /\ d \in Seq(Char) /\ Len(d) = n + m /\ \A j \in 1..(n + m) : d[j] = w[i + j]
  <2>1. Len(w) \in Nat
      BY LenProperties
  <2>2. i + n \in Nat /\ n + m \in Nat /\ i + n <= Len(w) /\ i + (n + m) <= Len(w)
      BY <2>1
  <2>3. a \in Seq(Char) /\ Len(a) = n
      BY <2>2, PieceIs
  <2>4. b \in Seq(Char) /\ Len(b) = m
      BY <2>2, PieceIs
  <2>5. d \in Seq(Char) /\ Len(d) = n + m
      BY <2>2, PieceIs
  <2> QED BY <2>3, <2>4, <2>5 DEF Piece
<1> HIDE DEF a, b, d
<1>2. a \o b \in Seq(Char) /\ Len(a \o b) = n + m
      /\ \A j \in 1..(n + m) : (a \o b)[j] = IF j <= n THEN a[j] ELSE b[j - n]
    BY <1>1, ConcatProperties
<1>3. ASSUME NEW j \in 1..(n + m) PROVE (a \o b)[j] = d[j]
  <2>1. CASE j <= n
      BY <1>1, <1>2, <2>1
  <2>2. CASE ~(j <= n)
    <3>1. j - n \in 1..m /\ i + n + (j - n) = i + j
        BY <2>2
    <3>2. b[j - n] = w[i + j]
        BY <1>1, <3>1
    <3> QED BY <1>1, <1>2, <2>2, <3>2
  <2> QED BY <2>1, <2>2
<1>4. a \o b = d
    BY <1>1, <1>2, <1>3, SeqEqual
<1> QED BY <1>4 DEF a, b, d

LEMMA PieceAppend ==
    ASSUME NEW w \in Seq(Char), NEW i \in Nat, NEW n \in Nat, i + n + 1 <= Len(w)
    PROVE  Append(Piece(w, i, n), w[i + n + 1]) = Piece(w, i, n + 1)
<1> DEFINE a == Piece(w, i, n)
           d == Piece(w, i, n + 1)
           x == w[i + n + 1]
<1>1. /\ a \in Seq(Char) /\ Len(a) = n /\ \A j \in 1..n : a[j] = w[i + j]
      /\ d \in Seq(Char) /\ Len(d) = n + 1 /\ \A j \in 1..(n + 1) : d[j] = w[i + j]
  <2>1. Len(w) \in Nat
      BY LenProperties
  <2>2. n + 1 \in Nat /\ i + n <= Len(w) /\ i + (n + 1) <= Len(w)
      BY <2>1
  <2>3. a \in Seq(Char) /\ Len(a) = n
      BY <2>2, PieceIs
  <2>4. d \in Seq(Char) /\ Len(d) = n + 1
      BY <2>2, PieceIs
  <2> QED BY <2>3, <2>4 DEF Piece
<1>2. x \in Char
  <2>1. i + n + 1 \in 1..Len(w)
      BY LenProperties
  <2> QED BY <2>1, ElementOfSeq
<1>3. x = w[i + (n + 1)]
    OBVIOUS
<1> HIDE DEF a, d, x
<1>4. /\ Append(a, x) \in Seq(Char) /\ Len(Append(a, x)) = n + 1
      /\ \A j \in 1..n : Append(a, x)[j] = a[j]
      /\ Append(a, x)[n + 1] = x
    BY <1>1, <1>2, AppendProperties
<1>5. ASSUME NEW j \in 1..(n + 1) PROVE Append(a, x)[j] = d[j]
  <2>1. CASE j \in 1..n
      BY <1>1, <1>4, <2>1
  <2>2. CASE j = n + 1
    <3>1. d[n + 1] = w[i + (n + 1)]
      <4>1. n + 1 \in 1..(n + 1)
          OBVIOUS
      <4> QED BY <1>1, <4>1
    <3>2. Append(a, x)[n + 1] = d[n + 1]
        BY <1>3, <1>4, <3>1
    <3> QED BY <2>2, <3>2
  <2>3. j \in 1..n \/ j = n + 1
      OBVIOUS
  <2> QED BY <2>1, <2>2, <2>3
<1>6. Append(a, x) = d
    BY <1>1, <1>4, <1>5, SeqEqual
<1> QED BY <1>6 DEF a, d, x

\* What each byte leads to.
LEMMA LineStep ==
    ASSUME NEW w \in Seq(Char), NEW o \in Nat, o < Len(w), Run(w, o),
           NEW s, NEW b, NEW z, s = LineState(w[1]), b = Piece(w, 1, o - 1)
    PROVE  /\ InLine(w[1], w[o + 1]) => At(w, o + 1, s, Append(b, w[o + 1]), z)
           /\ w[o + 1] = "CR" /\ o >= Least(w[1]) => At(w, o + 1, LineLF(w[1]), b, z)
           /\ ~InLine(w[1], w[o + 1]) /\ (w[o + 1] = "CR" => o < Least(w[1]))
                  => WrongAt(w, o + 1)
<1>1. o >= 1 /\ o - 1 \in Nat /\ (o + 1) - 1 = o /\ 1 + (o - 1) + 1 = o + 1 /\ o + 1 <= Len(w)
  <2>1. Len(w) \in Nat
      BY LenProperties
  <2> QED BY <2>1 DEF Run
<1>2. ASSUME InLine(w[1], w[o + 1]) PROVE At(w, o + 1, s, Append(b, w[o + 1]), z)
  <2>1. Run(w, o + 1)
    <3>1. \A i \in 2..(o + 1) : i \in 2..o \/ i = o + 1
        OBVIOUS
    <3>2. o + 1 \in Nat \ {0}
        OBVIOUS
    <3> QED BY <1>2, <3>1, <3>2 DEF Run
  <2>2. Append(b, w[o + 1]) = Piece(w, 1, o)
    <3>1. Append(Piece(w, 1, o - 1), w[1 + (o - 1) + 1]) = Piece(w, 1, (o - 1) + 1)
        BY <1>1, PieceAppend
    <3>2. (o - 1) + 1 = o
        OBVIOUS
    <3> QED BY <1>1, <3>1, <3>2
  <2> QED BY <1>1, <2>1, <2>2 DEF At
<1>3. ASSUME w[o + 1] = "CR", o >= Least(w[1]) PROVE At(w, o + 1, LineLF(w[1]), b, z)
  <2>1. CRAt(w, o)
      BY <1>3 DEF CRAt
  <2>2. (o + 1) - 2 = o - 1 /\ o + 1 > 1
      BY <1>1
  <2> QED BY <1>1, <2>1, <2>2 DEF At
<1>4. ASSUME ~InLine(w[1], w[o + 1]), w[o + 1] = "CR" => o < Least(w[1])
      PROVE  WrongAt(w, o + 1)
  <2>1. o \in 1..((o + 1) - 1)
      BY <1>1
  <2> QED BY <1>4, <2>1 DEF WrongAt
<1> QED BY <1>2, <1>3, <1>4

LEMMA NotLF ==
    ASSUME NEW w, NEW e \in Nat \ {0}, CRAt(w, e), w[e + 2] # "LF"
    PROVE  WrongAt(w, e + 2)
<1>1. e \in 1..((e + 2) - 2)
    OBVIOUS
<1> QED BY <1>1 DEF WrongAt

LEMMA LineEnds ==
    ASSUME NEW w, NEW e \in Nat \ {0}, CRAt(w, e), w[e + 2] = "LF", ~Sized(w)
    PROVE  EndsAt(w, e + 2, LineValue(w, e))
<1>1. e \in 1..((e + 2) - 2)
    OBVIOUS
<1> QED BY <1>1 DEF EndsAt, Ending, Header

\* After the LF of the size of a bulk string.
LEMMA BodyStarts ==
    ASSUME NEW w, NEW e \in Nat \ {0}, CRAt(w, e), w[e + 2] = "LF", Sized(w),
           NEW n, n = SizeIn(w, e)
    PROVE  /\ n \in Int
           /\ n = -1 => EndsAt(w, e + 2, Nil)
           /\ n < -1 => WrongAt(w, e + 2)
           /\ n = 0 => At(w, e + 2, "BulkCR", <<>>, 0)
           /\ \A m \in 0..n :
                  n > 0 => At(w, e + 2 + m, IF n > m THEN "Bulk" ELSE "BulkCR",
                              Piece(w, e + 2, m), n - m)
<1>1. e \in 1..((e + 2) - 2) /\ Header(w, e)
    BY DEF Header
<1>2. n \in Int
    BY SizeIsInt DEF Sized
<1>3. n = -1 => EndsAt(w, e + 2, Nil)
    BY <1>1 DEF EndsAt, Ending
<1>4. n < -1 => WrongAt(w, e + 2)
    BY <1>1 DEF WrongAt, WrongBody
<1>5. ASSUME NEW m \in Nat, m <= n, n >= 0
      PROVE  At(w, e + 2 + m, IF n > m THEN "Bulk" ELSE "BulkCR", Piece(w, e + 2, m), n - m)
  <2> DEFINE o == e + 2 + m
             s == IF n > m THEN "Bulk" ELSE "BulkCR"
  <2>1. e \in 1..(o - 2) /\ o - e - 2 = m /\ e + 2 <= o
      OBVIOUS
  <2>2. InBody(w, e, n, o, s, Piece(w, e + 2, m), n - m)
    <3>1. CASE n > m
      <4>1. o < e + 2 + n /\ n > 0
          BY <1>2, <3>1
      <4> HIDE DEF o
      <4> QED BY <2>1, <3>1, <4>1 DEF InBody
    <3>2. CASE ~(n > m)
      <4>1. n = m
          BY <1>2, <1>5, <3>2
      <4> QED BY <1>5, <3>2, <4>1 DEF InBody
    <3> QED BY <3>1, <3>2
  <2> HIDE DEF o, s
  <2>3. At(w, o, s, Piece(w, e + 2, m), n - m)
      BY <1>1, <2>1, <2>2 DEF At
  <2> QED BY <2>3 DEF o, s
<1>6. ASSUME n = 0 PROVE At(w, e + 2, "BulkCR", <<>>, 0)
  <2>1. At(w, e + 2 + 0, IF n > 0 THEN "Bulk" ELSE "BulkCR", Piece(w, e + 2, 0), n - 0)
      BY <1>5, <1>6
  <2>2. e + 2 + 0 = e + 2 /\ n - 0 = 0 /\ ~(n > 0) /\ Piece(w, e + 2, 0) = <<>>
      BY <1>6, NoPiece
  <2> QED BY <2>1, <2>2
<1> QED BY <1>2, <1>3, <1>4, <1>5, <1>6

LEMMA BodyStep ==
    ASSUME NEW w \in Seq(Char), NEW o \in Nat, NEW b, NEW z \in Int, At(w, o, "Bulk", b, z),
           NEW m \in Nat, m <= z, o + z <= Len(w)
    PROVE  At(w, o + m, IF z = m THEN "BulkCR" ELSE "Bulk", b \o Piece(w, o, m), z - m)
<1>1. PICK e \in 1..(o - 2) : Sized(w) /\ Header(w, e) /\ InBody(w, e, SizeIn(w, e), o, "Bulk", b, z)
    BY DEF At, LineState, LineLF
<1> DEFINE n == SizeIn(w, e)
           s == IF z = m THEN "BulkCR" ELSE "Bulk"
           p == o + m
<1>2. n \in Int /\ e \in Nat
    BY <1>1, SizeIsInt DEF Header, Sized
<1>3. /\ n > 0 /\ e + 2 <= o /\ o < e + 2 + n
      /\ b = Piece(w, e + 2, o - e - 2) /\ z = n - (o - e - 2)
    BY <1>1 DEF InBody
<1> HIDE DEF n
<1> DEFINE k == o - e - 2
<1>4. k \in Nat /\ e + 2 + k = o /\ n = z + k /\ p - e - 2 = k + m /\ e + 2 \in Nat
    BY <1>2, <1>3
<1>5. b \o Piece(w, o, m) = Piece(w, e + 2, k + m)
  <2>1. e + 2 + k + m <= Len(w)
    <3>1. Len(w) \in Nat
        BY LenProperties
    <3> QED BY <1>4, <3>1
  <2>2. Piece(w, e + 2, k) \o Piece(w, e + 2 + k, m) = Piece(w, e + 2, k + m)
    <3> HIDE DEF k
    <3> QED BY <1>4, <2>1, PiecesJoin
  <2> QED BY <1>3, <1>4, <2>2
<1>6. InBody(w, e, n, p, s, Piece(w, e + 2, k + m), z - m)
  <2>1. e + 2 <= p
      BY <1>2, <1>3
  <2>2. CASE z = m
    <3>1. p = e + 2 + n /\ k + m = n /\ n >= 0
        BY <1>2, <1>3, <1>4, <2>2
    <3>2. InBody(w, e, n, p, "BulkCR", Piece(w, e + 2, n), z - m)
      <4> HIDE DEF k, p
      <4> QED BY <3>1 DEF InBody
    <3>3. s = "BulkCR"
        BY <2>2
    <3> HIDE DEF k, p, s
    <3> QED BY <3>1, <3>2, <3>3
  <2>3. CASE z # m
    <3>1. p < e + 2 + n /\ z - m = n - (p - e - 2)
        BY <1>2, <1>4, <2>3
    <3> HIDE DEF k, p
    <3> QED BY <1>3, <1>4, <2>1, <2>3, <3>1 DEF InBody
  <2> QED BY <2>2, <2>3
<1>7. e \in 1..(p - 2)
    BY <1>2, <1>3
<1>8. At(w, p, s, Piece(w, e + 2, k + m), z - m)
  <2> HIDE DEF k, p, s
  <2> QED BY <1>1, <1>6, <1>7 DEF At, n
<1> QED BY <1>5, <1>8

LEMMA BodyEnds ==
    ASSUME NEW w \in Seq(Char), NEW o \in Nat, NEW b, NEW z, NEW y
    PROVE  /\ At(w, o, "BulkCR", b, z) =>
                  IF w[o + 1] = "CR" THEN At(w, o + 1, "BulkLF", b, y) ELSE WrongAt(w, o + 1)
           /\ At(w, o, "BulkLF", b, z) =>
                  IF w[o + 1] = "LF" THEN EndsAt(w, o + 1, StringOf(b)) ELSE WrongAt(w, o + 1)
<1>1. ASSUME At(w, o, "BulkCR", b, z)
      PROVE  IF w[o + 1] = "CR" THEN At(w, o + 1, "BulkLF", b, y) ELSE WrongAt(w, o + 1)
  <2>1. PICK e \in 1..(o - 2) :
            Sized(w) /\ Header(w, e) /\ InBody(w, e, SizeIn(w, e), o, "BulkCR", b, z)
      BY <1>1 DEF At, LineState, LineLF
  <2> DEFINE n == SizeIn(w, e)
  <2>2. n \in Int /\ e \in Nat
      BY <2>1, SizeIsInt DEF Header, Sized
  <2>3. n >= 0 /\ o = e + 2 + n /\ b = Piece(w, e + 2, n)
      BY <2>1 DEF InBody
  <2> HIDE DEF n
  <2>4. o + 1 = e + 3 + n /\ e \in 1..((o + 1) - 2)
      BY <2>2, <2>3
  <2>5. CASE w[o + 1] = "CR"
    <3>1. InBody(w, e, n, o + 1, "BulkLF", b, y)
        BY <2>3, <2>4, <2>5 DEF InBody
    <3> QED BY <2>1, <2>4, <2>5, <3>1 DEF At, n
  <2>6. CASE w[o + 1] # "CR"
    <3>1. WrongBody(w, e, n, o + 1)
        BY <2>2, <2>3, <2>4, <2>6 DEF WrongBody
    <3>2. CRAt(w, e) /\ w[e + 2] = "LF"
        BY <2>1 DEF Header
    <3> QED BY <2>1, <2>4, <2>6, <3>1, <3>2 DEF WrongAt, n
  <2> QED BY <2>5, <2>6
<1>2. ASSUME At(w, o, "BulkLF", b, z)
      PROVE  IF w[o + 1] = "LF" THEN EndsAt(w, o + 1, StringOf(b)) ELSE WrongAt(w, o + 1)
  <2>1. PICK e \in 1..(o - 2) :
            Sized(w) /\ Header(w, e) /\ InBody(w, e, SizeIn(w, e), o, "BulkLF", b, z)
      BY <1>2 DEF At, LineState, LineLF
  <2> DEFINE n == SizeIn(w, e)
  <2>2. n \in Int /\ e \in Nat
      BY <2>1, SizeIsInt DEF Header, Sized
  <2>3. n >= 0 /\ o = e + 3 + n /\ b = Piece(w, e + 2, n) /\ w[o] = "CR"
      BY <2>1 DEF InBody
  <2> HIDE DEF n
  <2>4. o + 1 = e + n + 4 /\ (o + 1) - 1 = o /\ e \in 1..((o + 1) - 2)
      BY <2>2, <2>3
  <2>5. CASE w[o + 1] = "LF"
    <3>1. Ending(w, e, n, o + 1, StringOf(b))
        BY <2>1, <2>3, <2>4, <2>5 DEF Ending
    <3> QED BY <2>1, <2>4, <2>5, <3>1 DEF EndsAt, n
  <2>6. CASE w[o + 1] # "LF"
    <3>1. WrongBody(w, e, n, o + 1)
        BY <2>2, <2>3, <2>4, <2>6 DEF WrongBody
    <3>2. CRAt(w, e) /\ w[e + 2] = "LF"
        BY <2>1 DEF Header
    <3> QED BY <2>1, <2>4, <2>6, <3>1, <3>2 DEF WrongAt, n
  <2> QED BY <2>5, <2>6
<1> QED BY <1>1, <1>2

\* An encoding ends where its value is complete, or it is malformed, and has the
\* byte that shows it.
Sound(r) ==
    /\ r.wire \in Seq(Char) \ {<<>>}
    /\ IF r.means.kind = "malformed" THEN \E o \in 1..Len(r.wire) : WrongAt(r.wire, o)
                                     ELSE EndsAt(r.wire, Len(r.wire), r.means)

LEMMA Closing ==
    ASSUME NEW r, Sound(r), NEW o \in Nat
    PROVE  /\ \A s, b, z : At(r.wire, o, s, b, z) => o < Len(r.wire)
           /\ \A v : EndsAt(r.wire, o, v) =>
                  o = Len(r.wire) /\ v = r.means /\ r.means.kind # "malformed"
           /\ WrongAt(r.wire, o) => r.means.kind = "malformed"
<1> DEFINE w == r.wire
<1>1. Len(w) \in Nat
    BY LenProperties DEF Sound
<1>2. ASSUME NEW s, NEW b, NEW z, At(w, o, s, b, z) PROVE o < Len(w)
  <2>1. CASE r.means.kind = "malformed"
    <3>1. PICK p \in 1..Len(w) : WrongAt(w, p)
        BY <2>1 DEF Sound
    <3>2. o < p
        BY <1>2, <3>1, AtBeforeWrong
    <3> QED BY <1>1, <3>2
  <2>2. CASE r.means.kind # "malformed"
    <3>1. EndsAt(w, Len(w), r.means)
        BY <2>2 DEF Sound
    <3> HIDE DEF w
    <3> QED BY <1>1, <1>2, <3>1, AtBeforeEnd
  <2> QED BY <2>1, <2>2
<1>3. ASSUME NEW v, EndsAt(w, o, v) PROVE o = Len(w) /\ v = r.means /\ r.means.kind # "malformed"
  <2>1. r.means.kind # "malformed"
    <3>1. SUFFICES ASSUME r.means.kind = "malformed" PROVE FALSE
        OBVIOUS
    <3>2. PICK p \in 1..Len(w) : WrongAt(w, p)
        BY <3>1 DEF Sound
    <3> QED BY <1>3, <3>2, EndIsNotWrong
  <2>2. EndsAt(w, Len(w), r.means)
      BY <2>1 DEF Sound
  <2> HIDE DEF w
  <2> QED BY <1>3, <2>1, <2>2, OneEnd
<1>4. ASSUME WrongAt(w, o), r.means.kind # "malformed" PROVE FALSE
  <2>1. EndsAt(w, Len(w), r.means)
      BY <1>4 DEF Sound
  <2> QED BY <1>4, <2>1, EndIsNotWrong
<1> QED BY <1>2, <1>3, <1>4

\* The body of a bulk string and more is in the encoding.
LEMMA BodyFits ==
    ASSUME NEW r, Sound(r), NEW e \in Nat \ {0}, Sized(r.wire), Header(r.wire, e),
           SizeIn(r.wire, e) >= 0
    PROVE  e + 2 + SizeIn(r.wire, e) < Len(r.wire)
<1> DEFINE w == r.wire
           n == SizeIn(w, e)
<1>1. CRAt(w, e) /\ w[e + 2] = "LF"
    BY DEF Header
<1>2. n \in Int
    BY <1>1, SizeIsInt DEF Sized
<1>3. /\ n = 0 => At(w, e + 2, "BulkCR", <<>>, 0)
      /\ \A m \in 0..n :
                  n > 0 => At(w, e + 2 + m, IF n > m THEN "Bulk" ELSE "BulkCR",
                              Piece(w, e + 2, m), n - m)
    BY <1>1, BodyStarts
<1> HIDE DEF n, w
<1>4. \E s, b, z : At(w, e + 2 + n, s, b, z)
  <2>1. CASE n = 0
    <3>1. e + 2 + n = e + 2
        BY <2>1
    <3> QED BY <1>3, <2>1, <3>1
  <2>2. CASE n > 0
    <3>1. n \in 0..n
        BY <1>2, <2>2
    <3> QED BY <1>3, <2>2, <3>1
  <2>3. n >= 0
      BY DEF n, w
  <2> QED BY <1>2, <2>1, <2>2, <2>3
<1>5. e + 2 + n \in Nat
  <2>1. n >= 0
      BY DEF n, w
  <2> QED BY <1>2, <2>1
<1> QED BY <1>4, <1>5, Closing DEF n, w

LEMMA BulkFits ==
    ASSUME NEW r, Sound(r), NEW o \in Nat, NEW b, NEW z, At(r.wire, o, "Bulk", b, z)
    PROVE  z \in Int /\ z > 0 /\ o + z < Len(r.wire)
<1> DEFINE w == r.wire
<1>1. PICK e \in 1..(o - 2) : Sized(w) /\ Header(w, e) /\ InBody(w, e, SizeIn(w, e), o, "Bulk", b, z)
    BY DEF At, LineState, LineLF
<1> DEFINE n == SizeIn(w, e)
<1>2. n \in Int /\ e \in Nat \ {0}
    BY <1>1, SizeIsInt DEF Header, Sized
<1>3. n > 0 /\ e + 2 <= o /\ o < e + 2 + n /\ z = n - (o - e - 2)
    BY <1>1 DEF InBody
<1>4. n >= 0
    BY <1>2, <1>3
<1>5. e + 2 + n < Len(w)
    BY <1>1, <1>2, <1>4, BodyFits
<1>6. Len(w) \in Nat
    BY LenProperties DEF Sound
<1> HIDE DEF n, w
<1> QED BY <1>2, <1>3, <1>5, <1>6 DEF w
-----------------------------------------------------------------------------
(* The replies of the protocol are sound: what bufferToLong reads is the     *)
(* number that was written in decimal, for every number of a long.           *)

LEMMA DecimalIs ==
    ASSUME NEW n \in Nat
    PROVE  /\ Decimal[n] \in Seq(Digit) /\ Decimal[n] # <<>>
           /\ n < 10 => \E x \in Digit : Decimal[n] = <<x>> /\ DigitValue[x] = n
           /\ n >= 10 => \E x \in Digit : Decimal[n] = Append(Decimal[n \div 10], x)
                                          /\ DigitValue[x] = n % 10
<1> DEFINE last(k) == CHOOSE x \in Digit : DigitValue[x] = k % 10
           A == Seq(Digit)
           stop == 0..9
           lasts == [k \in Nat |-> last(k)]
           base == [k \in Nat |-> <<lasts[k]>>]
           parent == [k \in Nat |-> k \div 10]
           step == [p \in Nat \X A |-> Append(p[2], lasts[p[1]])]
<1>1. ASSUME NEW k \in Nat PROVE last(k) \in Digit /\ DigitValue[last(k)] = k % 10
  <2>1. \E x \in Digit : DigitValue[x] = k % 10
      BY DivMod, DigitExists
  <2> QED BY <2>1
<1>2. \A k \in Nat : lasts[k] = last(k) /\ lasts[k] \in Digit /\ DigitValue[lasts[k]] = k % 10
    BY <1>1
<1> HIDE DEF lasts, last
<1>3. PICK f \in [Nat -> A] : Solves(f, stop, base, parent, step)
  <2>1. base \in [Nat -> A]
      BY <1>2
  <2>2. parent \in [Nat -> Nat]
      BY DivMod
  <2>3. step \in [Nat \X A -> A]
    <3>1. ASSUME NEW p \in Nat \X A PROVE Append(p[2], lasts[p[1]]) \in A
      <4>1. p[1] \in Nat /\ p[2] \in Seq(Digit)
          OBVIOUS
      <4>2. lasts[p[1]] \in Digit
          BY <1>2, <4>1
      <4> QED BY <4>1, <4>2, AppendProperties
    <3> QED BY <3>1
  <2>4. Descends(stop, parent)
    <3>1. ASSUME NEW k \in Nat \ stop PROVE parent[k] < k
      <4>1. k >= 10 /\ parent[k] = k \div 10
          OBVIOUS
      <4> QED BY <4>1, DivMod
    <3> QED BY <3>1 DEF Descends
  <2> HIDE DEF base, parent, step, stop, A
  <2> QED BY <2>1, <2>2, <2>3, <2>4, Recursion
<1>4. ASSUME NEW k \in Nat
      PROVE  f[k] = IF k < 10 THEN <<last(k)>> ELSE Append(f[k \div 10], last(k))
  <2>1. f[k] = IF k \in stop THEN base[k] ELSE step[<<k, f[parent[k]]>>]
      BY <1>3 DEF Solves
  <2>2. parent[k] = k \div 10 /\ k \div 10 \in Nat /\ f[k \div 10] \in A
      BY DivMod
  <2>3. step[<<k, f[k \div 10]>>] = Append(f[k \div 10], lasts[k])
      BY <2>2
  <2>4. (k \in stop <=> k < 10) /\ base[k] = <<lasts[k]>> /\ lasts[k] = last(k)
    <3>1. k \in stop <=> k < 10
        OBVIOUS
    <3>2. base[k] = <<lasts[k]>>
        OBVIOUS
    <3> QED BY <1>2, <3>1, <3>2
  <2> HIDE DEF base, parent, step, stop, A
  <2>5. CASE k < 10
      BY <2>1, <2>4, <2>5
  <2>6. CASE ~(k < 10)
      BY <2>1, <2>2, <2>3, <2>4, <2>6
  <2> QED BY <2>5, <2>6
<1> DEFINE Eq(d) == d = [k \in Nat |-> IF k < 10 THEN <<last(k)>> ELSE Append(d[k \div 10], last(k))]
<1>5. Eq(f)
  <2> DEFINE h == [k \in Nat |-> IF k < 10 THEN <<last(k)>> ELSE Append(f[k \div 10], last(k))]
  <2>1. \A k \in Nat : f[k] = h[k]
      BY <1>4
  <2>2. f = [k \in Nat |-> f[k]] /\ h = [k \in Nat |-> h[k]]
      OBVIOUS
  <2>3. f = h
    <3> HIDE DEF h
    <3> QED BY <2>1, <2>2
  <2> QED BY <2>3
<1> DEFINE D == Decimal
<1>6. Eq(D)
  <2>1. D = CHOOSE d : Eq(d)
      BY DEF Decimal, last
  <2> HIDE DEF Eq, D
  <2> QED BY <1>5, <2>1
<1> HIDE DEF D
<1>7. \A k \in Nat :
          /\ k < 10 => D[k] = <<last(k)>>
          /\ k >= 10 => D[k] = Append(D[k \div 10], last(k))
  <2>1. ASSUME NEW k \in Nat, k < 10 PROVE D[k] = <<last(k)>>
      BY <1>6, <2>1
  <2>2. ASSUME NEW k \in Nat, k >= 10 PROVE D[k] = Append(D[k \div 10], last(k))
    <3>1. ~(k < 10)
        BY <2>2
    <3> QED BY <1>6, <3>1
  <2> QED BY <2>1, <2>2
<1>8. \A k \in Nat : D[k] \in Seq(Digit) /\ D[k] # <<>>
  <2> DEFINE S == {k \in Nat : D[k] \in Seq(Digit) /\ D[k] # <<>>}
  <2>1. ASSUME NEW k \in Nat, \A j \in 0..(k - 1) : j \in S PROVE k \in S
    <3>1. last(k) \in Digit
        BY <1>1
    <3>2. CASE k < 10
      <4> DEFINE x == last(k)
      <4>1. D[k] = <<x>> /\ x \in Digit
          BY <1>7, <3>1, <3>2
      <4> HIDE DEF x
      <4>2. <<x>> \in Seq(Digit) /\ <<x>> # <<>>
          BY <4>1
      <4> QED BY <4>1, <4>2
    <3>3. CASE k >= 10
      <4>1. k \div 10 \in 0..(k - 1)
          BY <3>3, DivMod
      <4>2. D[k \div 10] \in Seq(Digit)
          BY <2>1, <4>1
      <4>3. D[k] = Append(D[k \div 10], last(k))
          BY <1>7, <3>3
      <4> DEFINE x == last(k)
                 q == D[k \div 10]
      <4>4. D[k] = Append(q, x) /\ x \in Digit /\ q \in Seq(Digit)
          BY <3>1, <4>2, <4>3
      <4> HIDE DEF x, q
      <4>5. Append(q, x) \in Seq(Digit) /\ Append(q, x) # <<>>
          BY <4>4, AppendProperties
      <4> QED BY <4>4, <4>5
    <3> QED BY <3>2, <3>3
  <2> HIDE DEF S
  <2>2. Nat \subseteq S
      BY <2>1, StrongInduction
  <2> USE DEF S
  <2> QED BY <2>2
<1>9. ASSUME n < 10 PROVE \E x \in Digit : D[n] = <<x>> /\ DigitValue[x] = n
  <2>1. n % 10 = n
      BY <1>9
  <2> QED BY <1>1, <1>7, <1>9, <2>1
<1>10. ASSUME n >= 10 PROVE \E x \in Digit : D[n] = Append(D[n \div 10], x) /\ DigitValue[x] = n % 10
    BY <1>1, <1>7, <1>10
<1> QED BY <1>8, <1>9, <1>10 DEF D

\* bufferToLong reads back what std::to_string wrote, up to the one number whose
\* negation overflows, which Long wraps.
LEMMA MagnitudeOfDecimal ==
    ASSUME NEW n \in 0..Half
    PROVE  Magnitude(Decimal[n]) = Long(n)
<1> DEFINE S == {k \in Nat : k <= Half => Magnitude(Decimal[k]) = Long(k)}
<1>0. Half \in Nat
    BY LongBitsAssumption
<1>1. ASSUME NEW k \in Nat, \A j \in 0..(k - 1) : j \in S PROVE k \in S
  <2>1. SUFFICES ASSUME k <= Half PROVE Magnitude(Decimal[k]) = Long(k)
      OBVIOUS
  <2>2. CASE k < 10
    <3>1. PICK x \in Digit : Decimal[k] = <<x>> /\ DigitValue[x] = k
        BY <2>2, DecimalIs
    <3>2. <<x>> = Append(<<>>, x) /\ x \in SizeChar /\ <<>> \in Seq(SizeChar)
        BY EmptySeq DEF SizeChar
    <3>3. Magnitude(Append(<<>>, x)) = Long(Magnitude(<<>>) * 10 + DigitValue[x])
        BY <3>2, MagnitudeIs
    <3>4. Magnitude(<<>>) * 10 + DigitValue[x] = k
        BY <3>1, MagnitudeOfNone
    <3> QED BY <3>1, <3>2, <3>3, <3>4
  <2>3. CASE k >= 10
    <3> DEFINE q == k \div 10
    <3>1. PICK x \in Digit : Decimal[k] = Append(Decimal[q], x) /\ DigitValue[x] = k % 10
        BY <2>3, DecimalIs
    <3>2. q \in Nat /\ q < k /\ k = q * 10 + (k % 10)
        BY <2>3, DivMod
    <3>3. Decimal[q] \in Seq(Digit)
        BY <3>2, DecimalIs
    <3> HIDE DEF q
    <3>4. Decimal[q] \in Seq(SizeChar) /\ x \in SizeChar
        BY <3>3, SeqMonotonic DEF SizeChar
    <3>5. Magnitude(Decimal[q]) = q
      <4>1. q \in 0..(k - 1) /\ q <= Half /\ q \in -Half..(Half - 1)
          BY <1>0, <2>1, <3>2
      <4>2. Magnitude(Decimal[q]) = Long(q)
          BY <1>1, <4>1
      <4> QED BY <4>1, <4>2, LongSmall
    <3>6. Magnitude(Append(Decimal[q], x)) = Long(Magnitude(Decimal[q]) * 10 + DigitValue[x])
        BY <3>4, MagnitudeIs
    <3> QED BY <3>1, <3>2, <3>5, <3>6
  <2> QED BY <2>2, <2>3
<1> HIDE DEF S
<1>2. Nat \subseteq S
    BY <1>1, StrongInduction
<1> USE DEF S
<1> QED BY <1>0, <1>2

\* What bufferToLong makes of the digits of a number is that number, for every
\* number of every width: the least one overflows on the way and comes out right.
THEOREM NumberIsReadBack ==
    ASSUME NEW n \in -Half..(Half - 1)
    PROVE  /\ bufferToLong(Signed(n)) = n
           /\ Signed(n) \in Seq(SizeChar) /\ Signed(n) # <<>>
<1>0. Half \in Nat \ {0}
    BY LongBitsAssumption
<1>1. CASE n >= 0
  <2>1. n \in 0..Half /\ n \in Nat
      BY <1>0, <1>1
  <2> DEFINE d == Decimal[n]
  <2>2. d \in Seq(Digit) /\ d # <<>>
      BY <2>1, DecimalIs
  <2>3. Magnitude(d) = n
      BY <2>1, MagnitudeOfDecimal, LongSmall
  <2>4. Signed(n) = d
      BY <1>1 DEF Signed
  <2> HIDE DEF d
  <2>5. Head(d) \in Digit
      BY <2>2, HeadTailProperties
  <2>6. Head(d) # "-"
      BY <2>5 DEF Digit
  <2>7. d \in Seq(SizeChar)
      BY <2>2, SeqMonotonic DEF SizeChar
  <2> QED BY <2>2, <2>3, <2>4, <2>6, <2>7 DEF bufferToLong
<1>2. CASE n < 0
  <2>1. -n \in 0..Half /\ -n \in Nat /\ -(-n) = n
      BY <1>0, <1>2
  <2> DEFINE d == Decimal[-n]
             t == <<"-">> \o d
  <2>2. d \in Seq(Digit)
      BY <2>1, DecimalIs
  <2>3. Magnitude(d) = Long(-n)
      BY <2>1, MagnitudeOfDecimal
  <2>4. Signed(n) = t
      BY <1>2 DEF Signed
  <2> HIDE DEF d
  <2>5. d \in Seq(SizeChar) /\ <<"-">> \in Seq(SizeChar)
      BY <2>2, SeqMonotonic DEF SizeChar
  <2>6. t \in Seq(SizeChar) /\ t # <<>> /\ Head(t) = "-" /\ Tail(t) = d
    <3>1. t \in Seq(SizeChar) /\ Len(t) = 1 + Len(d) /\ t[1] = "-" /\ Len(d) \in Nat
        BY <2>5, ConcatProperties, LenProperties
    <3>2. t # <<>> /\ Head(t) = "-"
        BY <3>1, EmptySeq
    <3>3. Tail(t) = d
        BY <2>5
    <3> QED BY <3>1, <3>2, <3>3
  <2>7. Long(-Long(-n)) = n
    <3>1. CASE n = -Half
      <4>1. -n = Half /\ -(-Half) = Half
          BY <1>0, <3>1
      <4> QED BY <3>1, <4>1, LongHalf
    <3>2. CASE n # -Half
      <4>1. -n \in -Half..(Half - 1)
          BY <1>0, <2>1, <3>2
      <4>2. Long(-n) = -n
          BY <4>1, LongSmall
      <4> QED BY <2>1, <4>2, LongSmall
    <3> QED BY <3>1, <3>2
  <2> HIDE DEF t
  <2>8. bufferToLong(t) = Long(-Magnitude(d))
      BY <2>6 DEF bufferToLong
  <2> QED BY <2>3, <2>4, <2>6, <2>7, <2>8
<1>3. n >= 0 \/ n < 0
    BY <1>0
<1> QED BY <1>1, <1>2, <1>3

LEMMA LineIs ==
    ASSUME NEW m \in Char, NEW t \in Seq(Char)
    PROVE  /\ Line(m, t) \in Seq(Char) /\ Len(Line(m, t)) = Len(t) + 3
           /\ Line(m, t)[1] = m /\ \A i \in 1..Len(t) : Line(m, t)[i + 1] = t[i]
           /\ Line(m, t)[Len(t) + 2] = "CR" /\ Line(m, t)[Len(t) + 3] = "LF"
<1> DEFINE a == <<m>>
           b == a \o t
           x == CRLF
           L == Len(t)
<1>1. L \in Nat
    BY LenProperties
<1>2. a \in Seq(Char) /\ Len(a) = 1 /\ a[1] = m
    OBVIOUS
<1>3. x \in Seq(Char) /\ Len(x) = 2 /\ x[1] = "CR" /\ x[2] = "LF"
    BY DEF CRLF, Char, Control
<1> HIDE DEF a, x
<1>4. /\ b \in Seq(Char) /\ Len(b) = 1 + L
      /\ \A i \in 1..(1 + L) : b[i] = IF i <= 1 THEN a[i] ELSE t[i - 1]
  <2>1. /\ b \in Seq(Char) /\ Len(b) = Len(a) + L
        /\ \A i \in 1..(Len(a) + L) : b[i] = IF i <= Len(a) THEN a[i] ELSE t[i - Len(a)]
      BY <1>2, ConcatProperties
  <2> HIDE DEF b, L
  <2> QED BY <1>2, <2>1
<1>5. /\ b[1] = m
      /\ \A i \in 1..L : b[i + 1] = t[i]
  <2>1. b[1] = m
      BY <1>1, <1>2, <1>4
  <2>2. ASSUME NEW i \in 1..L PROVE b[i + 1] = t[i]
    <3>1. i + 1 \in 1..(1 + L) /\ ~(i + 1 <= 1) /\ (i + 1) - 1 = i
        BY <1>1
    <3> HIDE DEF b, L
    <3> QED BY <1>4, <3>1
  <2> QED BY <2>1, <2>2
<1> HIDE DEF b
<1> HIDE DEF L
<1>6. /\ b \o x \in Seq(Char) /\ Len(b \o x) = (1 + L) + 2
      /\ \A i \in 1..((1 + L) + 2) : (b \o x)[i] = IF i <= 1 + L THEN b[i] ELSE x[i - (1 + L)]
  <2> DEFINE z == b \o x
  <2>1. /\ z \in Seq(Char) /\ Len(z) = Len(b) + Len(x)
        /\ \A i \in 1..(Len(b) + Len(x)) : z[i] = IF i <= Len(b) THEN b[i] ELSE x[i - Len(b)]
      BY <1>3, <1>4, ConcatProperties
  <2> HIDE DEF z
  <2>2. Len(b) = 1 + L /\ Len(x) = 2
      BY <1>3, <1>4
  <2> QED BY <2>1, <2>2 DEF z
<1>7. \A i \in 1..(1 + L) : (b \o x)[i] = b[i]
    BY <1>1, <1>6
<1>8. (b \o x)[L + 2] = "CR"
  <2>1. L + 2 \in 1..((1 + L) + 2) /\ ~(L + 2 <= 1 + L) /\ (L + 2) - (1 + L) = 1
      BY <1>1
  <2> QED BY <1>3, <1>6, <2>1
<1>9. (b \o x)[L + 3] = "LF"
  <2>1. L + 3 \in 1..((1 + L) + 2) /\ ~(L + 3 <= 1 + L) /\ (L + 3) - (1 + L) = 2
      BY <1>1
  <2> QED BY <1>3, <1>6, <2>1
<1>10. (b \o x)[1] = m /\ \A i \in 1..L : (b \o x)[i + 1] = t[i]
  <2>1. 1 \in 1..(1 + L)
      BY <1>1
  <2>2. ASSUME NEW i \in 1..L PROVE (b \o x)[i + 1] = t[i]
    <3>1. i + 1 \in 1..(1 + L)
        BY <1>1
    <3> QED BY <1>5, <1>7, <3>1
  <2> QED BY <1>5, <1>7, <2>1, <2>2
<1>11. Len(b \o x) = L + 3
    BY <1>1, <1>6
<1>12. Line(m, t) = b \o x
    BY DEF Line, b, a, x
<1> QED BY <1>6, <1>8, <1>9, <1>10, <1>11, <1>12 DEF L

\* An encoding that begins with a line.
LEMMA BeginsWithLine ==
    ASSUME NEW m \in Mark, NEW t \in Seq(Char), \A i \in 1..Len(t) : InLine(m, t[i]),
           Least(m) <= Len(t) + 1,
           NEW w \in Seq(Char), \A i \in 1..(Len(t) + 3) : w[i] = Line(m, t)[i]
    PROVE  w[1] = m /\ Header(w, Len(t) + 1) /\ Piece(w, 1, (Len(t) + 1) - 1) = t
<1> DEFINE L == Len(t)
           e == L + 1
<1>1. L \in Nat
    BY LenProperties
<1>2. m \in Char
    BY DEF Char
<1>3. /\ Line(m, t)[1] = m /\ \A i \in 1..L : Line(m, t)[i + 1] = t[i]
      /\ Line(m, t)[L + 2] = "CR" /\ Line(m, t)[L + 3] = "LF"
    BY <1>2, LineIs
<1> DEFINE l == Line(m, t)
<1> HIDE DEF L, l
<1>4. \A i \in 1..(L + 3) : w[i] = l[i]
    BY DEF L, l
<1>5. w[1] = m /\ w[e + 1] = "CR" /\ w[e + 2] = "LF"
  <2>1. 1 \in 1..(L + 3) /\ L + 2 \in 1..(L + 3) /\ L + 3 \in 1..(L + 3)
        /\ e + 1 = L + 2 /\ e + 2 = L + 3
      BY <1>1
  <2>2. w[1] = l[1] /\ w[L + 2] = l[L + 2] /\ w[L + 3] = l[L + 3]
      BY <1>4, <2>1
  <2> QED BY <1>3, <2>1, <2>2 DEF l
<1>6. ASSUME NEW i \in 1..L PROVE w[1 + i] = t[i]
  <2>1. i + 1 \in 1..(L + 3) /\ 1 + i = i + 1
      BY <1>1
  <2>2. w[i + 1] = l[i + 1]
      BY <1>4, <2>1
  <2> QED BY <1>3, <2>1, <2>2 DEF l
<1>7. Run(w, e)
  <2>1. ASSUME NEW j \in 2..e PROVE InLine(w[1], w[j])
    <3>1. j - 1 \in 1..L /\ 1 + (j - 1) = j
        BY <1>1
    <3>2. w[j] = t[j - 1]
        BY <1>6, <3>1
    <3> QED BY <1>5, <3>1, <3>2 DEF L
  <2>2. e \in Nat \ {0}
      BY <1>1
  <2> QED BY <1>5, <2>1, <2>2 DEF Run
<1>8. Header(w, e)
    BY <1>5, <1>7 DEF Header, CRAt, L
<1>9. Piece(w, 1, L) = t
  <2>1. Piece(w, 1, L) = [i \in 1..L |-> t[i]]
      BY <1>6 DEF Piece
  <2>2. t = [i \in 1..L |-> t[i]]
    <3>1. t \in [1..L -> Char]
        BY LenProperties DEF L
    <3> QED BY <3>1
  <2> QED BY <2>1, <2>2
<1>10. e - 1 = L
    BY <1>1
<1> QED BY <1>5, <1>8, <1>9, <1>10 DEF L

\* A reply that is a line, with what the parser makes of it.
LEMMA LineIsSound ==
    ASSUME NEW m \in Mark, NEW t \in Seq(Char), \A i \in 1..Len(t) : InLine(m, t[i]),
           Least(m) <= Len(t) + 1, NEW w, w = Line(m, t), NEW v,
           IF m \in {"$", "*"} THEN bufferToLong(t) = -1 /\ v = Nil
           ELSE v = CASE m = "+" -> StringOf(t) [] m = "-" -> ErrorOf(t)
                      [] OTHER -> IntOf(bufferToLong(t))
    PROVE  EndsAt(w, Len(w), v)
<1> DEFINE e == Len(t) + 1
<1>1. w \in Seq(Char) /\ Len(w) = Len(t) + 3 /\ Len(t) \in Nat
  <2>1. m \in Char
      BY DEF Char
  <2> QED BY <2>1, LineIs, LenProperties
<1>2. w[1] = m /\ Header(w, e) /\ Piece(w, 1, e - 1) = t
    BY <1>1, BeginsWithLine
<1>3. e \in 1..(Len(w) - 2) /\ Len(w) = e + 2
    BY <1>1
<1> HIDE DEF e
<1>4. SizeIn(w, e) = bufferToLong(t)
    BY <1>2 DEF SizeIn
<1>5. Ending(w, e, SizeIn(w, e), Len(w), v)
  <2>1. CASE m \in {"$", "*"}
      BY <1>2, <1>3, <1>4, <2>1 DEF Ending, Sized
  <2>2. CASE m \notin {"$", "*"}
    <3>1. v = LineValue(w, e)
        BY <1>2, <1>4, <2>2 DEF LineValue
    <3> QED BY <1>2, <1>3, <2>2, <3>1 DEF Ending, Sized
  <2> QED BY <2>1, <2>2
<1> QED BY <1>2, <1>3, <1>5 DEF EndsAt

LEMMA NumberLineIsSound ==
    ASSUME NEW n \in -Half..(Half - 1), NEW m \in Mark \ {"+", "-"}
    PROVE  /\ Signed(n) \in Seq(Char) /\ \A i \in 1..Len(Signed(n)) : InLine(m, Signed(n)[i])
           /\ Least(m) <= Len(Signed(n)) + 1 /\ bufferToLong(Signed(n)) = n
<1> DEFINE t == Signed(n)
<1>1. t \in Seq(SizeChar) /\ t # <<>> /\ bufferToLong(t) = n
    BY NumberIsReadBack
<1> HIDE DEF t
<1>2. t \in Seq(Char)
  <2>1. SizeChar \subseteq Char
      BY DEF SizeChar, Char, Mark
  <2> QED BY <1>1, <2>1, SeqMonotonic
<1>3. Len(t) \in Nat /\ Len(t) >= 1
    BY <1>1, EmptySeq, LenProperties
<1>4. \A i \in 1..Len(t) : InLine(m, t[i])
  <2>1. \A i \in 1..Len(t) : t[i] \in SizeChar
      BY <1>1, ElementOfSeq
  <2> QED BY <2>1 DEF InLine, IsSizeChar, SizeChar
<1>5. Least(m) <= Len(t) + 1
    BY <1>3 DEF Least
<1> QED BY <1>1, <1>2, <1>4, <1>5 DEF t

LEMMA BulkIsSound ==
    ASSUME NEW s \in Seq(Char), Len(s) < Half,
           NEW w, w = BulkReply(s).wire
    PROVE  EndsAt(w, Len(w), StringOf(s))
<1> DEFINE n == Len(s)
           t == Signed(n)
           l == Line("$", t)
           e == Len(t) + 1
           x == <<"CR", "LF">>
<1>1. n \in Nat /\ n \in -Half..(Half - 1)
    BY LenProperties, LongBitsAssumption
<1>2. /\ t \in Seq(Char) /\ \A i \in 1..Len(t) : InLine("$", t[i])
      /\ Least("$") <= Len(t) + 1 /\ bufferToLong(t) = n
  <2>1. "$" \in Mark \ {"+", "-"}
      BY DEF Mark
  <2> HIDE DEF n
  <2> QED BY <1>1, <2>1, NumberLineIsSound
<1>3. w = (l \o s) \o x
    BY DEF BulkReply, Reply
<1> HIDE DEF t, n
<1>4. l \in Seq(Char) /\ Len(l) = Len(t) + 3 /\ Len(t) \in Nat /\ Len(l) = e + 2
  <2>1. "$" \in Char
      BY DEF Char, Mark
  <2>2. l \in Seq(Char) /\ Len(l) = Len(t) + 3 /\ Len(t) \in Nat
      BY <1>2, <2>1, LineIs, LenProperties
  <2> QED BY <2>2
<1>5. x \in Seq(Char) /\ Len(x) = 2 /\ x[1] = "CR" /\ x[2] = "LF"
    BY DEF Char, Control
<1> HIDE DEF l, x
<1> DEFINE y == l \o s
<1>6. /\ y \in Seq(Char) /\ Len(y) = Len(l) + n
      /\ \A i \in 1..(Len(l) + n) : y[i] = IF i <= Len(l) THEN l[i] ELSE s[i - Len(l)]
    BY <1>4, ConcatProperties DEF n
<1> HIDE DEF y
<1>7. /\ w \in Seq(Char) /\ Len(w) = (Len(l) + n) + 2
      /\ \A i \in 1..((Len(l) + n) + 2) :
             w[i] = IF i <= Len(l) + n THEN y[i] ELSE x[i - (Len(l) + n)]
  <2>1. /\ w \in Seq(Char) /\ Len(w) = Len(y) + Len(x)
        /\ \A i \in 1..(Len(y) + Len(x)) : w[i] = IF i <= Len(y) THEN y[i] ELSE x[i - Len(y)]
    <3>1. w = y \o x
        BY <1>3 DEF y
    <3> DEFINE z == y \o x
    <3>2. /\ z \in Seq(Char) /\ Len(z) = Len(y) + Len(x)
          /\ \A i \in 1..(Len(y) + Len(x)) : z[i] = IF i <= Len(y) THEN y[i] ELSE x[i - Len(y)]
        BY <1>5, <1>6, ConcatProperties
    <3>3. w = z
        BY <3>1
    <3> HIDE DEF z
    <3> QED BY <3>2, <3>3
  <2>2. Len(y) = Len(l) + n /\ Len(x) = 2
      BY <1>5, <1>6
  <2> QED BY <2>1, <2>2
<1>8. \A i \in 1..(Len(t) + 3) : w[i] = l[i]
  <2>1. ASSUME NEW i \in 1..Len(l) PROVE w[i] = l[i]
    <3>1. i \in 1..(Len(l) + n) /\ i \in 1..((Len(l) + n) + 2) /\ i <= Len(l) /\ i <= Len(l) + n
        BY <1>1, <1>4
    <3> QED BY <1>6, <1>7, <3>1
  <2> QED BY <1>4, <2>1
<1>9. w[1] = "$" /\ Header(w, e) /\ Piece(w, 1, e - 1) = t
  <2>1. "$" \in Mark
      BY DEF Mark
  <2>2. \A i \in 1..(Len(t) + 3) : w[i] = Line("$", t)[i]
      BY <1>8 DEF l
  <2>3. w \in Seq(Char)
      BY <1>7
  <2>4. t \in Seq(Char) /\ (\A i \in 1..Len(t) : InLine("$", t[i])) /\ Least("$") <= Len(t) + 1
      BY <1>2
  <2> QED BY <2>1, <2>2, <2>3, <2>4, BeginsWithLine
<1>10. SizeIn(w, e) = n /\ Sized(w)
    BY <1>2, <1>9 DEF SizeIn, Sized
<1> HIDE DEF e
<1>11. e \in Nat /\ e >= 1 /\ Len(w) = e + n + 4 /\ Len(l) = e + 2
  <2>1. e \in Nat /\ e >= 1
      BY <1>4 DEF e
  <2> QED BY <1>1, <1>4, <1>7, <2>1
<1>12. w[Len(w) - 1] = "CR" /\ w[Len(w)] = "LF"
  <2> DEFINE p == Len(l) + n
  <2>1. p \in Nat /\ Len(w) - 1 = p + 1 /\ Len(w) = p + 2
      BY <1>1, <1>11
  <2>2. \A i \in 1..(p + 2) : w[i] = IF i <= p THEN y[i] ELSE x[i - p]
      BY <1>7
  <2> HIDE DEF p
  <2>3. w[p + 1] = x[1] /\ w[p + 2] = x[2]
    <3>1. p + 1 \in 1..(p + 2) /\ p + 2 \in 1..(p + 2) /\ ~(p + 1 <= p) /\ ~(p + 2 <= p)
          /\ (p + 1) - p = 1 /\ (p + 2) - p = 2
        BY <2>1
    <3> QED BY <2>2, <3>1
  <2> QED BY <1>5, <2>1, <2>3
<1>13. Piece(w, e + 2, n) = s
  <2>1. ASSUME NEW i \in 1..n PROVE w[e + 2 + i] = s[i]
    <3>1. /\ Len(l) + i \in 1..(Len(l) + n) /\ Len(l) + i \in 1..((Len(l) + n) + 2)
          /\ ~(Len(l) + i <= Len(l)) /\ (Len(l) + i) - Len(l) = i /\ e + 2 + i = Len(l) + i
          /\ Len(l) + i <= Len(l) + n
        BY <1>1, <1>11
    <3>2. w[Len(l) + i] = y[Len(l) + i]
        BY <1>7, <3>1
    <3>3. y[Len(l) + i] = s[i]
        BY <1>6, <3>1
    <3> QED BY <3>1, <3>2, <3>3
  <2>2. Piece(w, e + 2, n) = [i \in 1..n |-> s[i]]
      BY <2>1 DEF Piece
  <2>3. s \in [1..n -> Char]
      BY LenProperties DEF n
  <2> QED BY <2>2, <2>3
<1>14. Ending(w, e, n, Len(w), StringOf(s))
    BY <1>1, <1>10, <1>11, <1>12, <1>13 DEF Ending
<1>15. e \in 1..(Len(w) - 2)
    BY <1>1, <1>11
<1> QED BY <1>9, <1>10, <1>14, <1>15 DEF EndsAt

LEMMA RepliesAreSound == ASSUME NEW r \in Replies PROVE Sound(r)
<1> DEFINE w == r.wire
           s == r.means.chars
           n == r.means.num
<1>1. w \in Seq(Char) \ {<<>>}
    BY RepliesAssumption
<1>2. ASSUME r.means.kind # "malformed" PROVE EndsAt(w, Len(w), r.means)
  <2>1. \/ /\ s \in Seq(Char) /\ \A i \in 1..Len(s) : IsTextChar(s[i])
           /\ r \in {SimpleReply(s), ErrorReply(s)}
        \/ n \in -Half..(Half - 1) /\ r = IntegerReply(n)
        \/ s \in Seq(Char) /\ Len(s) < Half /\ r = BulkReply(s)
        \/ r \in {NilReply("$"), NilReply("*")}
      BY <1>2, ProtocolAssumption DEF IsReply
  <2>2. CASE /\ s \in Seq(Char) /\ \A i \in 1..Len(s) : IsTextChar(s[i])
             /\ r \in {SimpleReply(s), ErrorReply(s)}
    <3>1. Len(s) \in Nat
        BY <2>2, LenProperties
    <3>2. Least("+") <= Len(s) + 1 /\ Least("-") <= Len(s) + 1
        BY <3>1 DEF Least
    <3>3. \A i \in 1..Len(s) : InLine("+", s[i]) /\ InLine("-", s[i])
        BY <2>2 DEF InLine
    <3>4. "+" \in Mark /\ "-" \in Mark
        BY DEF Mark
    <3>5. \A m \in {"+", "-"} : \A u, v :
              u = Line(m, s) /\ v = (IF m = "+" THEN StringOf(s) ELSE ErrorOf(s))
                  => EndsAt(u, Len(u), v)
      <4> HIDE DEF s
      <4> QED BY <2>2, <3>2, <3>3, <3>4, LineIsSound
    <3>6. \/ w = Line("+", s) /\ r.means = StringOf(s)
          \/ w = Line("-", s) /\ r.means = ErrorOf(s)
      <4> HIDE DEF s
      <4>1. CASE r = SimpleReply(s)
          BY <4>1 DEF SimpleReply, Reply
      <4>2. CASE r = ErrorReply(s)
          BY <4>2 DEF ErrorReply, Reply
      <4> QED BY <2>2, <4>1, <4>2
    <3> HIDE DEF s, w
    <3> QED BY <3>5, <3>6
  <2>3. CASE n \in -Half..(Half - 1) /\ r = IntegerReply(n)
    <3> HIDE DEF n
    <3>1. w = Line(":", Signed(n)) /\ r.means = IntOf(n)
        BY <2>3 DEF IntegerReply, Reply
    <3>2. ":" \in Mark \ {"+", "-"} /\ ":" \notin {"$", "*"}
        BY DEF Mark
    <3>3. /\ Signed(n) \in Seq(Char) /\ \A i \in 1..Len(Signed(n)) : InLine(":", Signed(n)[i])
          /\ Least(":") <= Len(Signed(n)) + 1 /\ bufferToLong(Signed(n)) = n
        BY <2>3, <3>2, NumberLineIsSound
    <3> HIDE DEF w
    <3> QED BY <3>1, <3>2, <3>3, LineIsSound
  <2>4. CASE s \in Seq(Char) /\ Len(s) < Half /\ r = BulkReply(s)
    <3> HIDE DEF s
    <3>1. r.means = StringOf(s) /\ w = BulkReply(s).wire
        BY <2>4 DEF BulkReply, Reply
    <3> HIDE DEF w
    <3> QED BY <2>4, <3>1, BulkIsSound
  <2>5. ASSUME NEW m \in {"$", "*"}, r = NilReply(m) PROVE EndsAt(w, Len(w), r.means)
    <3>1. w = Line(m, Signed(-1)) /\ r.means = Nil
        BY <2>5 DEF NilReply, Reply
    <3>2. m \in Mark \ {"+", "-"}
        BY DEF Mark
    <3>3. -1 \in -Half..(Half - 1)
        BY LongBitsAssumption
    <3>4. /\ Signed(-1) \in Seq(Char) /\ \A i \in 1..Len(Signed(-1)) : InLine(m, Signed(-1)[i])
          /\ Least(m) <= Len(Signed(-1)) + 1 /\ bufferToLong(Signed(-1)) = -1
        BY <3>2, <3>3, NumberLineIsSound
    <3> HIDE DEF w
    <3> QED BY <3>1, <3>2, <3>4, LineIsSound
  <2> HIDE DEF w, s, n
  <2> QED BY <2>1, <2>2, <2>3, <2>4, <2>5
<1>3. ASSUME r.means.kind = "malformed" PROVE \E o \in 1..Len(w) : WrongAt(w, o)
    BY <1>3, ProtocolAssumption
<1> QED BY <1>1, <1>2, <1>3 DEF Sound
-----------------------------------------------------------------------------
(* The invariant.                                                           *)

Meanings == {r.means : r \in Replies}
Before(rs, k) == EndsOf(rs)[k - 1]
ParseInv ==
    /\ out \in Seq(Meanings) /\ Len(out) <= Len(replies)
    /\ \A i \in 1..Len(out) : out[i] = replies[i].means /\ ~IsMalformed(i)
    /\ ~rejected /\ st = "Start" => pos = EndsOf(replies)[Len(out)]
    /\ ~rejected /\ st # "Start" =>
           /\ Len(out) < Len(replies) /\ pos > EndsOf(replies)[Len(out)]
           /\ At(replies[Len(out) + 1].wire, pos - EndsOf(replies)[Len(out)], st, buf, bulkSize)
    /\ rejected =>
           /\ Len(out) < Len(replies) /\ IsMalformed(Len(out) + 1)
           /\ pos <= EndsOf(replies)[Len(out) + 1]

\* The reply the parser is at, and where in it.
Reading(k, w, o) ==
    /\ k = Len(out) + 1 /\ k \in 1..Len(replies)
    /\ w = replies[k].wire /\ w \in Seq(Char) /\ Sound(replies[k])
    /\ o \in Nat /\ o < Len(w) /\ Len(w) \in Nat
    /\ EndsOf(replies)[k - 1] \in Nat
    /\ pos = EndsOf(replies)[k - 1] + o
    /\ EndsOf(replies)[k] = EndsOf(replies)[k - 1] + Len(w)
    /\ c = w[o + 1]

LEMMA ByteOfReply ==
    ASSUME NEW rs \in Seq(Replies), NEW k \in 1..Len(rs), NEW i \in 1..Len(rs[k].wire)
    PROVE  ByteOf(rs, EndsOf(rs)[k - 1] + i) = rs[k].wire[i]
<1> DEFINE E == EndsOf(rs)
           L == Len(rs[k].wire)
<1>1. /\ Len(rs) \in Nat /\ E \in [0..Len(rs) -> Nat] /\ E[k] = E[k - 1] + L
    BY EndsOfIs, LenProperties
<1>2. L \in Nat
    BY RepliesAssumption, ElementOfSeq, LenProperties
<1>3. k - 1 \in 0..Len(rs)
    BY <1>1
<1>4. E[k - 1] \in Nat
    BY <1>1, <1>3
<1>5. /\ E[k - 1] + i \in Nat /\ E[k - 1] < E[k - 1] + i /\ E[k - 1] + i <= E[k]
      /\ (E[k - 1] + i) - E[k - 1] = i
  <2> HIDE DEF E, L
  <2> QED BY <1>1, <1>2, <1>4 DEF L
<1>6. ByteOf(rs, E[k - 1] + i) = rs[k].wire[(E[k - 1] + i) - E[k - 1]]
    BY <1>5, ByteOfIs
<1> QED BY <1>5, <1>6

LEMMA BytesArePiece ==
    ASSUME TypeInv, NEW k, NEW w, NEW o, Reading(k, w, o),
           NEW i \in Nat, NEW m \in Nat, o <= i, i + m <= Len(w)
    PROVE  Bytes(pos + (i - o) + 1, pos + (i - o) + m) = Piece(w, i, m)
<1> DEFINE a == pos + (i - o) + 1
           z == pos + (i - o) + m
           B == EndsOf(replies)[k - 1]
<1>1. /\ k \in 1..Len(replies) /\ w = replies[k].wire /\ replies \in Seq(Replies)
      /\ o \in Nat /\ Len(w) \in Nat /\ B \in Nat /\ pos = B + o
    BY DEF Reading, TypeInv
<1> HIDE DEF B
<1>2. z - a + 1 = m /\ pos \in Nat /\ a \in Nat
    BY <1>1
<1>3. ASSUME NEW n \in 1..m PROVE ByteAt(a + n - 1) = w[i + n]
  <2>1. i + n \in 1..Len(w) /\ a + n - 1 = B + (i + n)
      BY <1>1
  <2>2. ByteOf(replies, B + (i + n)) = w[i + n]
      BY <1>1, <2>1, ByteOfReply DEF B
  <2> QED BY <2>1, <2>2, ByteIs
<1> HIDE DEF a, z
<1>4. Bytes(a, z) = [n \in 1..m |-> ByteAt(a + n - 1)]
    BY <1>2 DEF Bytes
<1>5. Bytes(a, z) = [n \in 1..m |-> w[i + n]]
    BY <1>3, <1>4
<1> QED BY <1>5 DEF Piece, a, z

LEMMA ReadingIs ==
    ASSUME TypeInv, ParseInv, ~rejected, pos < hi \/ Len(out) < Len(replies),
           NEW k, NEW w, NEW o,
           k = Len(out) + 1, w = replies[k].wire, o = pos - EndsOf(replies)[k - 1]
    PROVE  Reading(k, w, o)
<1> DEFINE E == EndsOf(replies)
           N == Len(replies)
           n == Len(out)
<1>1. /\ N \in Nat /\ E \in [0..N -> Nat] /\ \A j \in 1..N : E[j] = E[j - 1] + Len(replies[j].wire)
      /\ replies \in Seq(Replies) /\ hi <= E[N] /\ hi \in Nat /\ pos \in Nat /\ E[N] \in Nat
  <2>1. hi <= E[N]
      BY SizeIsNat DEF TypeInv
  <2> QED BY <2>1, EndsOfIs, LenProperties, SizeIsNat DEF TypeInv
<1>2. n \in Nat /\ n <= N /\ k = n + 1 /\ k - 1 = n /\ o = pos - E[n]
    BY LenProperties DEF ParseInv
<1> HIDE DEF E, N, n
<1>3. E[n] \in Nat /\ N \in Nat /\ hi <= E[N] /\ hi \in Nat /\ pos \in Nat /\ E[N] \in Nat
    BY <1>1, <1>2
<1>4. n < N /\ o \in Nat
  <2>1. CASE st = "Start"
    <3>1. pos = E[n]
        BY <2>1 DEF ParseInv, E, n
    <3>2. n # N
      <4>1. SUFFICES ASSUME n = N PROVE FALSE
          OBVIOUS
      <4>2. pos = E[N]
          BY <3>1, <4>1
      <4>3. pos < hi
          BY <1>3, <4>1 DEF n, N
      <4> QED BY <1>3, <4>2, <4>3
    <3> QED BY <1>2, <1>3, <3>1, <3>2
  <2>2. CASE st # "Start"
    <3>1. n < N /\ pos > E[n]
        BY <2>2 DEF ParseInv, E, n, N
    <3> QED BY <1>2, <1>3, <3>1
  <2> QED BY <2>1, <2>2
<1>5. k \in 1..N
    BY <1>2, <1>3, <1>4
<1>6. replies[k] \in Replies
    BY <1>1, <1>5, ElementOfSeq DEF N
<1>7. Sound(replies[k]) /\ w \in Seq(Char) /\ w # <<>> /\ Len(w) \in Nat
    BY <1>6, RepliesAreSound, LenProperties DEF Sound
<1>8. Len(w) > 0
    BY <1>7, EmptySeq
<1>9. pos = E[k - 1] + o /\ E[k] = E[k - 1] + Len(w) /\ E[k - 1] \in Nat
  <2>1. E[k] = E[k - 1] + Len(w)
      BY <1>1, <1>5
  <2>2. E[k - 1] = E[n]
      BY <1>2
  <2>3. pos = E[n] + o
      BY <1>2, <1>3
  <2> QED BY <1>3, <2>1, <2>2, <2>3
<1>10. o < Len(w)
  <2>1. CASE st = "Start"
    <3>1. pos = E[n]
        BY <2>1 DEF ParseInv, E, n
    <3>2. o = 0
        BY <1>2, <1>3, <3>1
    <3> QED BY <1>8, <3>2
  <2>2. CASE st # "Start"
    <3>1. At(w, o, st, buf, bulkSize)
      <4>1. At(replies[n + 1].wire, pos - E[n], st, buf, bulkSize)
          BY <2>2 DEF ParseInv, E, n
      <4>2. replies[n + 1].wire = w /\ pos - E[n] = o
          BY <1>2 DEF E
      <4> QED BY <4>1, <4>2
    <3> QED BY <1>4, <1>7, <3>1, Closing
  <2> QED BY <2>1, <2>2
<1>11. c = w[o + 1]
  <2>1. o + 1 \in 1..Len(replies[k].wire) /\ E[k - 1] + (o + 1) = pos + 1
    <3>1. o + 1 \in 1..Len(w)
        BY <1>4, <1>7, <1>10
    <3>2. E[k - 1] + (o + 1) = pos + 1
      <4> DEFINE B == E[k - 1]
      <4>1. pos = B + o /\ B \in Nat /\ o \in Nat
          BY <1>4, <1>9
      <4> HIDE DEF B
      <4>2. B + (o + 1) = pos + 1
          BY <4>1
      <4> QED BY <4>2 DEF B
    <3>3. Len(w) = Len(replies[k].wire)
        OBVIOUS
    <3> QED BY <3>1, <3>2, <3>3
  <2>2. ByteOf(replies, E[k - 1] + (o + 1)) = w[o + 1]
      BY <1>1, <1>5, <2>1, ByteOfReply DEF E, N
  <2>3. ByteAt(pos + 1) = ByteOf(replies, pos + 1)
      BY ByteIs
  <2> QED BY <2>1, <2>2, <2>3 DEF c
<1> QED BY <1>2, <1>4, <1>5, <1>7, <1>9, <1>10, <1>11 DEF Reading, E, N, n

\* The three ways a step of the parser ends.
LEMMA StaysMidway ==
    ASSUME TypeInv, ParseInv, ~rejected, NEW k, NEW w, NEW o, Reading(k, w, o),
           NEW m \in Nat \ {0}, Consume(m), UNCHANGED <<out, rejected>>,
           At(w, o + m, st', buf', bulkSize'), st' # "Start"
    PROVE  ParseInv'
<1> DEFINE B == EndsOf(replies)[k - 1]
<1>1. /\ k = Len(out) + 1 /\ k \in 1..Len(replies) /\ w = replies[k].wire
      /\ o \in Nat /\ B \in Nat /\ pos = B + o
    BY DEF Reading
<1>2. /\ pos' = pos + m /\ replies' = replies /\ out' = out /\ rejected' = rejected
    BY DEF Consume
<1>3. Len(out) \in Nat /\ out \in Seq(Meanings) /\ Len(out) <= Len(replies) /\ k - 1 = Len(out)
    BY <1>1, LenProperties DEF ParseInv
<1>4. Len(out) < Len(replies)
    BY <1>1, <1>3
<1>5. EndsOf(replies)[Len(out)] = B
    BY <1>3
<1> HIDE DEF B
<1>6. pos' > B /\ pos' - B = o + m
    BY <1>1, <1>2
<1>7. (/\ Len(out) < Len(replies) /\ pos > EndsOf(replies)[Len(out)]
       /\ At(replies[Len(out) + 1].wire, pos - EndsOf(replies)[Len(out)], st, buf, bulkSize))'
    BY <1>1, <1>2, <1>4, <1>5, <1>6
<1>8. (\A i \in 1..Len(out) : out[i] = replies[i].means /\ ~IsMalformed(i))'
    BY <1>2 DEF ParseInv, IsMalformed
<1> QED BY <1>2, <1>3, <1>7, <1>8 DEF ParseInv

LEMMA Finishes ==
    ASSUME TypeInv, ParseInv, ~rejected, NEW k, NEW w, NEW o, Reading(k, w, o),
           Consume(1), NEW v, Complete(v), EndsAt(w, o + 1, v)
    PROVE  ParseInv'
<1> DEFINE E == EndsOf(replies)
<1>1. /\ k = Len(out) + 1 /\ k \in 1..Len(replies) /\ w = replies[k].wire
      /\ o \in Nat /\ E[k - 1] \in Nat /\ pos = E[k - 1] + o /\ Sound(replies[k])
      /\ E[k] = E[k - 1] + Len(w)
    BY DEF Reading
<1>2. /\ pos' = pos + 1 /\ replies' = replies /\ rejected' = rejected
      /\ st' = "Start" /\ out' = Append(out, v)
    BY DEF Consume, Complete
<1>3. Len(out) \in Nat /\ out \in Seq(Meanings)
    BY LenProperties DEF ParseInv
<1>4. o + 1 = Len(w) /\ v = replies[k].means /\ ~IsMalformed(k)
  <2>1. o + 1 \in Nat
      BY <1>1
  <2> QED BY <1>1, <2>1, Closing DEF IsMalformed
<1>5. v \in Meanings
  <2>1. replies[k] \in Replies
      BY <1>1, ElementOfSeq DEF TypeInv
  <2> QED BY <1>4, <2>1 DEF Meanings
<1>6. /\ Append(out, v) \in Seq(Meanings) /\ Len(Append(out, v)) = k
      /\ \A i \in 1..Len(out) : Append(out, v)[i] = out[i]
      /\ Append(out, v)[k] = v
    BY <1>1, <1>3, <1>5, AppendProperties
<1>7. ASSUME NEW i \in 1..k PROVE Append(out, v)[i] = replies[i].means /\ ~IsMalformed(i)
  <2>1. CASE i \in 1..Len(out)
      BY <1>6, <2>1 DEF ParseInv
  <2>2. CASE i = k
      BY <1>4, <1>6, <2>2
  <2>3. i \in 1..Len(out) \/ i = k
      BY <1>1, <1>3
  <2> QED BY <2>1, <2>2, <2>3
<1>8. pos' = E[k] /\ k <= Len(replies)
  <2>1. k <= Len(replies)
      BY <1>1
  <2> HIDE DEF E
  <2>2. pos' = E[k - 1] + (o + 1)
      BY <1>1, <1>2
  <2> QED BY <1>1, <1>4, <2>1, <2>2
<1>9. (\A i \in 1..Len(out) : out[i] = replies[i].means /\ ~IsMalformed(i))'
    BY <1>2, <1>6, <1>7 DEF IsMalformed
<1> QED BY <1>2, <1>6, <1>8, <1>9 DEF ParseInv

LEMMA Rejects ==
    ASSUME TypeInv, ParseInv, ~rejected, NEW k, NEW w, NEW o, Reading(k, w, o),
           Consume(1), Error, WrongAt(w, o + 1)
    PROVE  ParseInv'
<1> DEFINE E == EndsOf(replies)
<1>1. /\ k = Len(out) + 1 /\ k \in 1..Len(replies) /\ w = replies[k].wire /\ Len(w) \in Nat
      /\ o \in Nat /\ o < Len(w) /\ E[k - 1] \in Nat /\ pos = E[k - 1] + o /\ Sound(replies[k])
      /\ E[k] = E[k - 1] + Len(w)
    BY DEF Reading
<1>2. /\ pos' = pos + 1 /\ replies' = replies /\ rejected' = TRUE
      /\ st' = "Start" /\ out' = out
    BY DEF Consume, Error
<1>3. Len(out) \in Nat /\ Len(out) < Len(replies) /\ out \in Seq(Meanings) /\ Len(out) <= Len(replies)
  <2>1. Len(out) \in Nat /\ Len(replies) \in Nat
      BY LenProperties DEF ParseInv, TypeInv
  <2> QED BY <1>1, <2>1 DEF ParseInv
<1>4. IsMalformed(k)
  <2>1. o + 1 \in Nat
      BY <1>1
  <2> QED BY <1>1, <2>1, Closing DEF IsMalformed
<1>5. pos' <= E[k]
  <2> HIDE DEF E
  <2> QED BY <1>1, <1>2
<1>6. (\A i \in 1..Len(out) : out[i] = replies[i].means /\ ~IsMalformed(i))'
    BY <1>2 DEF ParseInv, IsMalformed
<1>7. (/\ Len(out) < Len(replies) /\ IsMalformed(Len(out) + 1)
       /\ pos <= EndsOf(replies)[Len(out) + 1])'
    BY <1>1, <1>2, <1>3, <1>4, <1>5 DEF IsMalformed
<1> QED BY <1>2, <1>3, <1>6, <1>7 DEF ParseInv

LEMMA ParseInit == Init => ParseInv
<1> SUFFICES ASSUME Init PROVE ParseInv
    OBVIOUS
<1>1. pos = 0 /\ st = "Start" /\ out = <<>> /\ rejected = FALSE
    BY DEF Init, ParserInit
<1>2. out \in Seq(Meanings) /\ Len(out) = 0
    BY <1>1, EmptySeq
<1>3. replies \in Seq(Replies)
    BY TypeInit DEF TypeInv
<1>4. EndsOf(replies)[0] = 0 /\ Len(replies) \in Nat
    BY <1>3, EndsOfIs, LenProperties
<1> QED BY <1>1, <1>2, <1>4 DEF ParseInv

\* Where the parser is, by the name of its state.
LEMMA AtLine ==
    ASSUME NEW w, NEW o, NEW b, NEW z, NEW m \in Mark, At(w, o, LineState(m), b, z)
    PROVE  /\ Run(w, o) /\ b = Piece(w, 1, o - 1) /\ LineState(w[1]) = LineState(m)
           /\ LineLF(w[1]) = LineLF(m) /\ (w[1] \in {"+", "-"} <=> m \in {"+", "-"})
<1>1. Run(w, o) /\ b = Piece(w, 1, o - 1) /\ LineState(w[1]) = LineState(m)
    BY DEF At, InBody, LineState, LineLF
<1>2. w[1] \in Mark
    BY <1>1 DEF Run
<1> QED BY <1>1, <1>2 DEF LineState, LineLF, Mark

LEMMA AtLF ==
    ASSUME NEW w, NEW o, NEW b, NEW z, NEW m \in Mark, At(w, o, LineLF(m), b, z)
    PROVE  /\ o > 1 /\ CRAt(w, o - 1) /\ b = Piece(w, 1, o - 2) /\ LineLF(w[1]) = LineLF(m)
           /\ w[1] \in Mark /\ (w[1] = m \/ (w[1] \in {"$", "*"} /\ m \in {"$", "*"}))
<1>1. o > 1 /\ CRAt(w, o - 1) /\ b = Piece(w, 1, o - 2) /\ LineLF(w[1]) = LineLF(m)
    BY DEF At, InBody, LineState, LineLF
<1>2. w[1] \in Mark
    BY <1>1 DEF CRAt, Run
<1> QED BY <1>1, <1>2 DEF LineLF, Mark

LEMMA MidwayIs ==
    ASSUME TypeInv, ParseInv, ~rejected, pos < hi, st # "Start"
    PROVE  \E k, w, o : Reading(k, w, o) /\ At(w, o, st, buf, bulkSize)
<1> DEFINE k == Len(out) + 1
           w == replies[k].wire
           o == pos - EndsOf(replies)[k - 1]
<1>1. Reading(k, w, o)
    BY ReadingIs
<1>2. At(w, o, st, buf, bulkSize)
  <2>1. Len(out) \in Nat
      BY LenProperties DEF ParseInv
  <2>2. k - 1 = Len(out)
      BY <2>1
  <2> QED BY <2>2 DEF ParseInv
<1> HIDE DEF k, w, o
<1> QED BY <1>1, <1>2

LEMMA StartStep == ASSUME TypeInv, ParseInv, Start PROVE ParseInv'
<1> DEFINE k == Len(out) + 1
           w == replies[k].wire
           o == pos - EndsOf(replies)[k - 1]
<1>1. /\ ~rejected /\ pos < hi /\ st = "Start" /\ Consume(1) /\ buf' = <<>>
      /\ CASE c = "+" -> GoTo("String") [] c = "-" -> GoTo("ErrorString")
           [] c = ":" -> GoTo("Integer") [] c \in {"$", "*"} -> GoTo("BulkSize")
           [] OTHER -> Error
    BY DEF Start, In
<1>2. Reading(k, w, o)
    BY <1>1, ReadingIs
<1>3. o = 0
  <2>1. Len(out) \in Nat
      BY LenProperties DEF ParseInv
  <2>2. k - 1 = Len(out)
      BY <2>1
  <2>3. pos = EndsOf(replies)[k - 1]
      BY <1>1, <2>2 DEF ParseInv
  <2>4. EndsOf(replies)[k - 1] \in Nat
      BY <1>2 DEF Reading
  <2> QED BY <2>3, <2>4
<1>4. c = w[1]
    BY <1>2, <1>3 DEF Reading
<1> HIDE DEF k, w, o
<1>5. CASE c \in Mark
  <2>1. GoTo(LineState(c))
      BY <1>1, <1>5 DEF LineState, Mark
  <2>2. Run(w, 1) /\ Piece(w, 1, 1 - 1) = <<>>
    <3>1. Piece(w, 1, 0) = <<>>
        BY NoPiece
    <3> QED BY <1>4, <1>5, <3>1 DEF Run
  <2>3. At(w, o + 1, st', buf', bulkSize') /\ st' # "Start" /\ UNCHANGED <<out, rejected>>
    <3>1. st' = LineState(w[1]) /\ buf' = Piece(w, 1, 1 - 1)
        BY <1>1, <1>4, <2>1, <2>2 DEF GoTo
    <3>2. At(w, 1, st', buf', bulkSize')
        BY <2>2, <3>1 DEF At
    <3>3. o + 1 = 1
        BY <1>3
    <3> QED BY <2>1, <3>2, <3>3 DEF GoTo, LineState
  <2> QED BY <1>1, <1>2, <2>3, StaysMidway
<1>6. CASE c \notin Mark
  <2>1. Error
      BY <1>1, <1>6 DEF Mark
  <2>2. WrongAt(w, o + 1)
    <3>1. o + 1 = 1
        BY <1>3
    <3> QED BY <1>4, <1>6, <3>1 DEF WrongAt
  <2> QED BY <1>1, <1>2, <2>1, <2>2, Rejects
<1> QED BY <1>5, <1>6

LEMMA LineActions ==
    ASSUME TypeInv, ParseInv, NEW m \in {"+", "-", ":", "$"},
           IF m \in {"+", "-"} THEN TextLine(LineState(m), LineLF(m))
                               ELSE NumberLine(LineState(m), LineLF(m))
    PROVE  ParseInv'
<1>1. ~rejected /\ pos < hi /\ st = LineState(m) /\ st # "Start" /\ Consume(1)
    BY DEF TextLine, NumberLine, In, LineState
<1>2. PICK k, w, o : Reading(k, w, o) /\ At(w, o, st, buf, bulkSize)
    BY <1>1, MidwayIs
<1>3. /\ Run(w, o) /\ buf = Piece(w, 1, o - 1) /\ st = LineState(w[1])
      /\ LineLF(w[1]) = LineLF(m) /\ (w[1] \in {"+", "-"} <=> m \in {"+", "-"})
  <2>1. m \in Mark
      BY DEF Mark
  <2> QED BY <1>1, <1>2, <2>1, AtLine
<1>4. /\ w \in Seq(Char) /\ o \in Nat /\ o < Len(w) /\ c = w[o + 1] /\ o >= 1 /\ Len(w) \in Nat
    BY <1>2, <1>3 DEF Reading, Run
<1>5. /\ InLine(w[1], c) => At(w, o + 1, st, Append(buf, c), bulkSize')
      /\ c = "CR" /\ o >= Least(w[1]) => At(w, o + 1, LineLF(m), buf, bulkSize')
      /\ ~InLine(w[1], c) /\ (c = "CR" => o < Least(w[1])) => WrongAt(w, o + 1)
    BY <1>3, <1>4, LineStep
<1>6. ~InLine(w[1], "CR")
    BY DEF InLine, IsTextChar, IsSizeChar, Control, Digit
<1>7. buf = <<>> <=> o < 2
  <2>1. o - 1 \in Nat /\ 1 + (o - 1) <= Len(w)
      BY <1>4
  <2>2. Len(buf) = o - 1 /\ buf \in Seq(Char)
      BY <1>3, <1>4, <2>1, PieceIs
  <2>3. buf = <<>> <=> Len(buf) = 0
      BY <2>2, EmptySeq
  <2> QED BY <1>4, <2>2, <2>3
<1>8. \/ At(w, o + 1, st', buf', bulkSize') /\ st' # "Start" /\ UNCHANGED <<out, rejected>>
      \/ Error /\ WrongAt(w, o + 1)
  <2>1. CASE m \in {"+", "-"}
    <3>1. \/ c = "CR" /\ GoTo(LineLF(m)) /\ UNCHANGED buf
          \/ c # "CR" /\ IsTextChar(c) /\ buf' = Append(buf, c) /\ GoTo(LineState(m))
          \/ c # "CR" /\ ~IsTextChar(c) /\ Error /\ UNCHANGED buf
        BY <2>1 DEF TextLine
    <3>2. Least(w[1]) = 1 /\ (InLine(w[1], c) <=> IsTextChar(c))
        BY <1>3, <2>1 DEF Least, InLine
    <3>3. LineLF(m) # "Start" /\ LineState(m) # "Start"
        BY DEF LineLF, LineState
    <3>4. CASE c = "CR" /\ GoTo(LineLF(m)) /\ UNCHANGED buf
        BY <1>4, <1>5, <3>2, <3>3, <3>4 DEF GoTo
    <3>5. CASE c # "CR" /\ IsTextChar(c) /\ buf' = Append(buf, c) /\ GoTo(LineState(m))
        BY <1>1, <1>5, <3>2, <3>3, <3>5 DEF GoTo
    <3>6. CASE c # "CR" /\ ~IsTextChar(c) /\ Error /\ UNCHANGED buf
        BY <1>5, <3>2, <3>6
    <3> QED BY <3>1, <3>4, <3>5, <3>6
  <2>2. CASE m \notin {"+", "-"}
    <3>1. \/ c = "CR" /\ buf # <<>> /\ GoTo(LineLF(m)) /\ UNCHANGED buf
          \/ IsSizeChar(c) /\ buf' = Append(buf, c) /\ GoTo(LineState(m))
          \/ /\ IF c = "CR" THEN buf = <<>> ELSE ~IsSizeChar(c)
             /\ Error /\ UNCHANGED buf
        BY <2>2 DEF NumberLine
    <3>2. Least(w[1]) = 2 /\ (InLine(w[1], c) <=> IsSizeChar(c))
        BY <1>3, <2>2 DEF Least, InLine
    <3>3. LineLF(m) # "Start" /\ LineState(m) # "Start"
        BY DEF LineLF, LineState
    <3>4. CASE c = "CR" /\ buf # <<>> /\ GoTo(LineLF(m)) /\ UNCHANGED buf
        BY <1>4, <1>5, <1>7, <3>2, <3>3, <3>4 DEF GoTo
    <3>5. CASE IsSizeChar(c) /\ buf' = Append(buf, c) /\ GoTo(LineState(m))
        BY <1>1, <1>5, <3>2, <3>3, <3>5 DEF GoTo
    <3>6. CASE (IF c = "CR" THEN buf = <<>> ELSE ~IsSizeChar(c)) /\ Error
        BY <1>5, <1>6, <1>7, <3>2, <3>6
    <3> QED BY <3>1, <3>4, <3>5, <3>6
  <2> QED BY <2>1, <2>2
<1> QED BY <1>1, <1>2, <1>8, StaysMidway, Rejects

LEMMA NewlineActions ==
    ASSUME TypeInv, ParseInv, NEW m \in {"+", "-", ":", "$"},
           CASE m = "+" -> StringLF [] m = "-" -> ErrorLF [] m = ":" -> IntegerLF
             [] OTHER -> BulkSizeLF
    PROVE  ParseInv'
<1>1. ~rejected /\ pos < hi /\ st = LineLF(m) /\ st # "Start"
    BY DEF StringLF, ErrorLF, IntegerLF, BulkSizeLF, Newline, In, LineLF
<1>2. PICK k, w, o : Reading(k, w, o) /\ At(w, o, st, buf, bulkSize)
    BY <1>1, MidwayIs
<1>3. /\ o > 1 /\ CRAt(w, o - 1) /\ buf = Piece(w, 1, o - 2)
      /\ w[1] \in Mark /\ (w[1] = m \/ (w[1] \in {"$", "*"} /\ m \in {"$", "*"}))
  <2>1. m \in Mark
      BY DEF Mark
  <2> QED BY <1>1, <1>2, <2>1, AtLF
<1> DEFINE e == o - 1
<1>4. /\ w \in Seq(Char) /\ o \in Nat /\ e \in Nat \ {0} /\ e + 2 = o + 1 /\ c = w[e + 2]
      /\ CRAt(w, e) /\ buf = Piece(w, 1, e - 1)
  <2>1. w \in Seq(Char) /\ o \in Nat /\ c = w[o + 1]
      BY <1>2 DEF Reading
  <2>2. e \in Nat \ {0} /\ e + 2 = o + 1 /\ e - 1 = o - 2
      BY <1>3, <2>1
  <2> QED BY <1>3, <2>1, <2>2
<1> HIDE DEF e
<1>5. CASE c # "LF"
  <2>1. Error /\ Consume(1)
      BY <1>5 DEF StringLF, ErrorLF, IntegerLF, BulkSizeLF, Newline
  <2>2. WrongAt(w, o + 1)
      BY <1>4, <1>5, NotLF
  <2> QED BY <1>1, <1>2, <2>1, <2>2, Rejects
<1>6. CASE c = "LF" /\ m # "$"
  <2>1. EndsAt(w, o + 1, LineValue(w, e))
    <3>1. ~Sized(w) /\ w[e + 2] = "LF"
        BY <1>3, <1>4, <1>6 DEF Sized
    <3>2. EndsAt(w, e + 2, LineValue(w, e))
        BY <1>4, <3>1, LineEnds
    <3> QED BY <1>4, <3>2
  <2>2. Complete(LineValue(w, e)) /\ Consume(1)
    <3>1. w[1] = m
        BY <1>3, <1>6
    <3>2. CASE m = "+"
        BY <1>4, <1>6, <3>1, <3>2 DEF StringLF, Newline, LineValue
    <3>3. CASE m = "-"
        BY <1>4, <1>6, <3>1, <3>3 DEF ErrorLF, Newline, LineValue
    <3>4. CASE m = ":"
        BY <1>4, <1>6, <3>1, <3>4 DEF IntegerLF, Newline, LineValue, SizeIn
    <3> QED BY <1>6, <3>2, <3>3, <3>4
  <2> QED BY <1>1, <1>2, <2>1, <2>2, Finishes
<1>7. CASE c = "LF" /\ m = "$"
  <2> DEFINE n == bufferToLong(buf)
  <2>0. Sized(w) /\ n = SizeIn(w, e)
      BY <1>3, <1>4, <1>7 DEF Sized, SizeIn
  <2>1. /\ n \in Int
        /\ n = -1 => EndsAt(w, e + 2, Nil)
        /\ n < -1 => WrongAt(w, e + 2)
        /\ n = 0 => At(w, e + 2, "BulkCR", <<>>, 0)
        /\ \A j \in 0..n :
               n > 0 => At(w, e + 2 + j, IF n > j THEN "Bulk" ELSE "BulkCR",
                           Piece(w, e + 2, j), n - j)
    <3> HIDE DEF n
    <3> QED BY <1>4, <1>7, <2>0, BodyStarts
  <2>2. \/ /\ n <= 0
           /\ buf' = <<>> /\ bulkSize' = n /\ Consume(1)
           /\ CASE n = -1 -> Complete(Nil)
                [] n = 0 -> GoTo("BulkCR")
                [] OTHER -> Error
        \/ n > 0 /\ CopyFirst(n)
      BY <1>7 DEF BulkSizeLF, Newline
  <2> HIDE DEF n
  <2>3. CASE n = -1
    <3>1. Complete(Nil) /\ Consume(1)
        BY <2>2, <2>3
    <3>2. EndsAt(w, o + 1, Nil)
        BY <1>4, <2>1, <2>3
    <3> QED BY <1>1, <1>2, <3>1, <3>2, Finishes
  <2>4. CASE n < -1
    <3>1. Error /\ Consume(1)
        BY <2>1, <2>2, <2>4
    <3>2. WrongAt(w, o + 1)
        BY <1>4, <2>1, <2>4
    <3> QED BY <1>1, <1>2, <3>1, <3>2, Rejects
  <2>5. CASE n = 0
    <3>1. buf' = <<>> /\ bulkSize' = 0 /\ Consume(1) /\ GoTo("BulkCR")
        BY <2>2, <2>5
    <3>2. At(w, o + 1, st', buf', bulkSize') /\ st' # "Start" /\ UNCHANGED <<out, rejected>>
        BY <1>4, <2>1, <2>5, <3>1 DEF GoTo
    <3> QED BY <1>1, <1>2, <3>1, <3>2, StaysMidway
  <2>6. CASE n > 0
    <3> DEFINE j == AvailableOf(n)
    <3>1. CopyFirst(n)
        BY <2>1, <2>2, <2>6
    <3>2. /\ buf' = Bytes(pos + 2, pos + 1 + j) /\ bulkSize' = n - j
          /\ Consume(1 + j) /\ GoTo(IF n > j THEN "Bulk" ELSE "BulkCR")
        BY <3>1 DEF CopyFirst
    <3>3. j \in 0..n /\ j \in Nat /\ pos \in Nat
      <4>1. hi \in Nat /\ pos \in Nat
          BY SizeIsNat
      <4> QED BY <1>1, <2>1, <2>6, <4>1 DEF AvailableOf, MinOf
    <3> HIDE DEF j
    <3>4. At(w, e + 2 + j, IF n > j THEN "Bulk" ELSE "BulkCR", Piece(w, e + 2, j), n - j)
        BY <2>1, <2>6, <3>3
    <3>5. o + 1 + j <= Len(w)
      <4>1. Sound(replies[k]) /\ w = replies[k].wire /\ Len(w) \in Nat
          BY <1>2 DEF Reading
      <4>2. Header(w, e)
          BY <1>4, <1>7 DEF Header
      <4>3. e + 2 + n < Len(w)
        <5>1. n >= 0
            BY <2>1, <2>6
        <5> QED BY <1>4, <2>0, <4>1, <4>2, <5>1, BodyFits
      <4> QED BY <1>4, <2>1, <3>3, <4>1, <4>3
    <3>6. Bytes(pos + 2, pos + 1 + j) = Piece(w, e + 2, j)
      <4>1. Bytes(pos + ((o + 1) - o) + 1, pos + ((o + 1) - o) + j) = Piece(w, o + 1, j)
        <5>1. o + 1 \in Nat /\ o <= o + 1
            BY <1>4
        <5> QED BY <1>2, <3>3, <3>5, <5>1, BytesArePiece
      <4>2. pos + ((o + 1) - o) + 1 = pos + 2 /\ pos + ((o + 1) - o) + j = pos + 1 + j
          BY <1>4, <3>3
      <4> QED BY <1>4, <4>1, <4>2
    <3>7. At(w, o + (1 + j), st', buf', bulkSize') /\ st' # "Start" /\ UNCHANGED <<out, rejected>>
      <4>1. e + 2 + j = o + (1 + j)
          BY <1>4, <3>3
      <4> QED BY <3>2, <3>4, <3>6, <4>1 DEF GoTo
    <3>8. 1 + j \in Nat \ {0}
        BY <3>3
    <3> QED BY <1>1, <1>2, <3>2, <3>7, <3>8, StaysMidway
  <2> QED BY <2>1, <2>3, <2>4, <2>5, <2>6
<1> QED BY <1>5, <1>6, <1>7

LEMMA BodyActions == ASSUME TypeInv, ParseInv, Bulk \/ BulkCR \/ BulkLF PROVE ParseInv'
<1>1. ~rejected /\ pos < hi /\ st \in {"Bulk", "BulkCR", "BulkLF"}
    BY DEF Bulk, BulkCR, BulkLF, Newline, In
<1>2. PICK k, w, o : Reading(k, w, o) /\ At(w, o, st, buf, bulkSize)
    BY <1>1, MidwayIs
<1>3. /\ w \in Seq(Char) /\ o \in Nat /\ c = w[o + 1] /\ Sound(replies[k]) /\ w = replies[k].wire
      /\ Len(w) \in Nat
    BY <1>2 DEF Reading
<1>4. CASE Bulk
  <2> DEFINE m == MinOf(hi - pos, bulkSize)
  <2>1. /\ st = "Bulk"
        /\ buf' = buf \o Bytes(pos + 1, pos + m) /\ bulkSize' = bulkSize - m
        /\ Consume(m) /\ GoTo(IF bulkSize = m THEN "BulkCR" ELSE "Bulk")
      BY <1>4 DEF Bulk, In
  <2>2. bulkSize \in Int /\ bulkSize > 0 /\ o + bulkSize < Len(w)
      BY <1>2, <1>3, <2>1, BulkFits
  <2>3. m \in Nat \ {0} /\ m <= bulkSize /\ pos \in Nat
      BY <1>1, <2>2, SizeIsNat DEF MinOf
  <2> HIDE DEF m
  <2>4. Bytes(pos + 1, pos + m) = Piece(w, o, m)
    <3>1. Bytes(pos + (o - o) + 1, pos + (o - o) + m) = Piece(w, o, m)
      <4>1. o <= o /\ o + m <= Len(w) /\ m \in Nat
          BY <1>3, <2>2, <2>3
      <4> QED BY <1>2, <1>3, <4>1, BytesArePiece
    <3>2. pos + (o - o) + 1 = pos + 1 /\ pos + (o - o) + m = pos + m
        BY <1>3, <2>3
    <3> QED BY <3>1, <3>2
  <2>5. At(w, o + m, IF bulkSize = m THEN "BulkCR" ELSE "Bulk", buf \o Piece(w, o, m), bulkSize - m)
    <3>1. o + bulkSize <= Len(w) /\ m \in Nat
        BY <1>3, <2>2, <2>3
    <3> QED BY <1>2, <1>3, <2>1, <2>2, <2>3, <3>1, BodyStep
  <2>6. At(w, o + m, st', buf', bulkSize') /\ st' # "Start" /\ UNCHANGED <<out, rejected>>
      BY <2>1, <2>4, <2>5 DEF GoTo
  <2> QED BY <1>1, <1>2, <2>1, <2>3, <2>6, StaysMidway
<1>5. CASE BulkCR
  <2>1. /\ st = "BulkCR" /\ Consume(1) /\ UNCHANGED <<buf, bulkSize>>
        /\ IF c = "CR" THEN GoTo("BulkLF") ELSE Error
      BY <1>5 DEF BulkCR, In
  <2>2. IF c = "CR" THEN At(w, o + 1, "BulkLF", buf, bulkSize) ELSE WrongAt(w, o + 1)
      BY <1>2, <1>3, <2>1, BodyEnds
  <2>3. CASE c = "CR"
    <3>1. At(w, o + 1, st', buf', bulkSize') /\ st' # "Start" /\ UNCHANGED <<out, rejected>>
        BY <2>1, <2>2, <2>3 DEF GoTo
    <3> QED BY <1>1, <1>2, <2>1, <3>1, StaysMidway
  <2>4. CASE c # "CR"
      BY <1>1, <1>2, <2>1, <2>2, <2>4, Rejects
  <2> QED BY <2>3, <2>4
<1>6. CASE BulkLF
  <2>1. /\ st = "BulkLF"
        /\ IF c = "LF" THEN Complete(StringOf(buf)) /\ Consume(1) ELSE Error /\ Consume(1)
      BY <1>6 DEF BulkLF, Newline, In
  <2>2. IF c = "LF" THEN EndsAt(w, o + 1, StringOf(buf)) ELSE WrongAt(w, o + 1)
      BY <1>2, <1>3, <2>1, BodyEnds
  <2>3. CASE c = "LF"
      BY <1>1, <1>2, <2>1, <2>2, <2>3, Finishes
  <2>4. CASE c # "LF"
      BY <1>1, <1>2, <2>1, <2>2, <2>4, Rejects
  <2> QED BY <2>3, <2>4
<1> QED BY <1>4, <1>5, <1>6

LEMMA ParseNext == TypeInv /\ ParseInv /\ [Next]_vars => ParseInv'
<1> SUFFICES ASSUME TypeInv, ParseInv, [Next]_vars PROVE ParseInv'
    OBVIOUS
<1>1. CASE Start
    BY <1>1, StartStep
<1>2. CASE String
  <2>1. TextLine(LineState("+"), LineLF("+"))
      BY <1>2 DEF String, LineState, LineLF
  <2> QED BY <2>1, LineActions
<1>3. CASE ErrorString
  <2>1. TextLine(LineState("-"), LineLF("-"))
      BY <1>3 DEF ErrorString, LineState, LineLF
  <2> QED BY <2>1, LineActions
<1>4. CASE Integer
  <2>1. NumberLine(LineState(":"), LineLF(":"))
      BY <1>4 DEF Integer, LineState, LineLF
  <2> QED BY <2>1, LineActions
<1>5. CASE BulkSize
  <2>1. NumberLine(LineState("$"), LineLF("$"))
      BY <1>5 DEF BulkSize, LineState, LineLF
  <2> QED BY <2>1, LineActions
<1>6. CASE StringLF
    BY <1>6, NewlineActions
<1>7. CASE ErrorLF
    BY <1>7, NewlineActions
<1>8. CASE IntegerLF
    BY <1>8, NewlineActions
<1>9. CASE BulkSizeLF
    BY <1>9, NewlineActions
<1>10. CASE Bulk \/ BulkCR \/ BulkLF
    BY <1>10, BodyActions
\* The parser does not move.
<1>11. ASSUME UNCHANGED <<replies, pos, st, buf, bulkSize, out, rejected>> PROVE ParseInv'
    BY <1>11 DEF ParseInv, IsMalformed
<1>12. ASSUME NEW n \in 1..(End[Len(replies)] - hi), Deliver(n) PROVE ParseInv'
    BY <1>11, <1>12 DEF Deliver
<1>13. CASE UNCHANGED vars
    BY <1>11, <1>13 DEF vars
<1> QED
    BY <1>1, <1>2, <1>3, <1>4, <1>5, <1>6, <1>7, <1>8, <1>9, <1>10, <1>12, <1>13
       DEF Next, parseChunk

LEMMA ParseInvHolds == Spec => [](TypeInv /\ ParseInv)
BY ParseInit, ParseNext, TypeInit, TypeNext, PTL DEF Spec

\* The values the parser returned are those the server meant, for streams of any
\* number of replies that are any of the protocol's, or malformed in any place,
\* and for any cuts into chunks.
THEOREM FaithfulCorrect == Spec => []Faithful
<1>1. TypeInv /\ ParseInv => Faithful
    BY DEF ParseInv, Faithful
<1> QED BY <1>1, ParseInvHolds, PTL

\* Between two replies the parser has consumed the bytes of those it returned, and
\* no byte of the next: asyncRead and syncReadResponse go on at the right place.
THEOREM ExactConsumptionCorrect == Spec => []ExactConsumption
<1>1. TypeInv /\ ParseInv => ExactConsumption
    BY EndIs DEF ParseInv, ExactConsumption
<1> QED BY <1>1, ParseInvHolds, PTL

\* parse() returns Error only at a reply that is malformed, the one after those it
\* returned.
THEOREM RejectsOnlyMalformedCorrect == Spec => []RejectsOnlyMalformed
<1>1. TypeInv /\ ParseInv => RejectsOnlyMalformed
    BY DEF ParseInv, RejectsOnlyMalformed
<1> QED BY <1>1, ParseInvHolds, PTL

\* The last byte of a reply is enough to complete it, and a malformed reply is
\* rejected by its own last byte: no byte of the next one is waited for.
THEOREM PromptCorrect == Spec => []Prompt
<1>1. ASSUME TypeInv, ParseInv PROVE Prompt
  <2> DEFINE E == EndsOf(replies)
             N == Len(replies)
             n == Len(out)
  <2>1. SUFFICES ASSUME NEW k \in 1..N, pos >= E[k]
                 PROVE  IF IsMalformed(k) THEN rejected ELSE n >= k
      BY EndIs DEF Prompt
  <2>2. N \in Nat /\ n \in Nat /\ n <= N /\ replies \in Seq(Replies) /\ pos \in Nat
      BY <1>1, SizeIsNat, LenProperties DEF TypeInv, ParseInv
  <2>3. /\ E \in [0..N -> Nat] /\ \A i, j \in 0..N : i <= j => E[i] <= E[j]
        /\ \A i \in 1..N : E[i] = E[i - 1] + Len(replies[i].wire) /\ Len(replies[i].wire) > 0
    <3>1. ASSUME NEW i \in 1..N PROVE Len(replies[i].wire) > 0
      <4>1. replies[i] \in Replies
          BY <2>2, ElementOfSeq
      <4>2. replies[i].wire \in Seq(Char) /\ replies[i].wire # <<>>
          BY <4>1, RepliesAssumption
      <4> QED BY <4>2, EmptySeq, LenProperties
    <3> QED BY <2>2, <3>1, EndsOfIs, EndsMonotone
  <2>4. \A j \in 1..n : ~IsMalformed(j)
      BY <1>1 DEF ParseInv
  <2>5. E[k] \in Nat /\ k \in Nat
    <3>1. k \in 0..N
        BY <2>2
    <3> HIDE DEF E, N
    <3> QED BY <2>3, <3>1
  <2>6. ASSUME n < k, ~rejected PROVE FALSE
    <3> DEFINE w == replies[n + 1].wire
               o == pos - E[(n + 1) - 1]
    <3>1. Reading(n + 1, w, o)
      <4>1. n < N
          BY <2>2, <2>6
      <4> QED BY <1>1, <2>6, <4>1, ReadingIs
    <3>2. /\ pos = E[(n + 1) - 1] + o /\ E[n + 1] = E[(n + 1) - 1] + Len(w) /\ o < Len(w)
          /\ o \in Nat /\ Len(w) \in Nat /\ E[(n + 1) - 1] \in Nat
        BY <3>1 DEF Reading
    <3> HIDE DEF E, N, n, w, o
    <3>3. n + 1 \in 0..N /\ k \in 0..N /\ n + 1 <= k
        BY <2>2, <2>6
    <3>4. E[n + 1] <= E[k]
        BY <2>3, <3>3
    <3> QED BY <2>1, <2>2, <2>5, <3>2, <3>4
  <2>7. ASSUME n < k, rejected, ~IsMalformed(k) PROVE FALSE
    <3>1. n < N /\ IsMalformed(n + 1) /\ pos <= E[n + 1]
        BY <1>1, <2>7 DEF ParseInv
    <3> HIDE DEF E, N, n
    <3>2. k # n + 1
        BY <2>7, <3>1
    <3>3. n + 1 \in 0..N /\ n + 2 \in 1..N /\ n + 2 \in 0..N /\ k \in 0..N /\ n + 2 <= k
          /\ (n + 2) - 1 = n + 1
        BY <2>2, <2>7, <3>2
    <3>4. E[n + 2] <= E[k] /\ E[n + 1] \in Nat /\ E[n + 2] \in Nat
        BY <2>3, <3>3
    <3>5. E[n + 2] = E[n + 1] + Len(replies[n + 2].wire) /\ Len(replies[n + 2].wire) > 0
      <4>1. E[n + 2] = E[(n + 2) - 1] + Len(replies[n + 2].wire) /\ Len(replies[n + 2].wire) > 0
          BY <2>3, <3>3
      <4> QED BY <3>3, <4>1
    <3>6. Len(replies[n + 2].wire) \in Nat
        BY <2>2, <3>3, RepliesAssumption, ElementOfSeq, LenProperties DEF N
    <3> QED BY <2>1, <2>2, <2>5, <3>1, <3>4, <3>5, <3>6
  <2>8. IsMalformed(k) => n < k
      BY <2>2, <2>4
  <2> QED BY <2>2, <2>5, <2>6, <2>7, <2>8
<1> QED BY <1>1, ParseInvHolds, PTL
-----------------------------------------------------------------------------
(* Sequences joined one after another: where each begins, and which element  *)
(* is at a place.                                                           *)

\* f goes from a on, by the rule, up to N.
Goes(f, N, a, rule) == f[0] = a /\ \A k \in 1..N : f[k] = rule[<<k, f[k - 1]>>]

LEMMA Going ==
    ASSUME NEW A, NEW N \in Nat, NEW a \in A, NEW rule \in [(1..N) \X A -> A]
    PROVE  \E f \in [0..N -> A] : Goes(f, N, a, rule)
<1> DEFINE stop == {0} \cup {k \in Nat : k > N}
           base == [k \in Nat |-> a]
           parent == [k \in Nat |-> IF k = 0 THEN 0 ELSE k - 1]
           step == [p \in Nat \X A |-> IF p[1] \in 1..N THEN rule[p] ELSE a]
<1>1. PICK f \in [Nat -> A] : Solves(f, stop, base, parent, step)
  <2>1. base \in [Nat -> A] /\ parent \in [Nat -> Nat]
      OBVIOUS
  <2>2. step \in [Nat \X A -> A]
    <3>1. ASSUME NEW p \in Nat \X A PROVE (IF p[1] \in 1..N THEN rule[p] ELSE a) \in A
      <4>1. CASE p[1] \in 1..N
        <5>1. p = <<p[1], p[2]>> /\ p[2] \in A
            OBVIOUS
        <5>2. p \in (1..N) \X A
            BY <4>1, <5>1
        <5> QED BY <4>1, <5>2
      <4>2. CASE p[1] \notin 1..N
          BY <4>2
      <4> QED BY <4>1, <4>2
    <3> QED BY <3>1
  <2>3. Descends(stop, parent)
      BY DEF Descends
  <2> HIDE DEF base, parent, step, stop
  <2> QED BY <2>1, <2>2, <2>3, Recursion
<1> DEFINE g == [k \in 0..N |-> f[k]]
<1>2. g \in [0..N -> A]
    BY <1>1
<1>3. f[0] = a
    BY <1>1 DEF Solves
<1>4. ASSUME NEW k \in 1..N PROVE f[k] = rule[<<k, f[k - 1]>>]
  <2>1. k \in Nat /\ k # 0 /\ k \notin stop /\ parent[k] = k - 1 /\ k - 1 \in Nat
      OBVIOUS
  <2>2. f[k] = step[<<k, f[k - 1]>>]
    <3> HIDE DEF stop, base, parent, step
    <3> QED BY <1>1, <2>1 DEF Solves
  <2>3. f[k - 1] \in A
      BY <1>1, <2>1
  <2> DEFINE p == <<k, f[k - 1]>>
  <2>4. p \in Nat \X A /\ p[1] = k
      BY <2>1, <2>3
  <2>5. step[p] = rule[p]
      BY <2>4
  <2> QED BY <2>2, <2>5
<1>5. Goes(g, N, a, rule)
  <2>1. g[0] = a
      BY <1>3
  <2>2. ASSUME NEW k \in 1..N PROVE g[k] = rule[<<k, g[k - 1]>>]
    <3>1. k \in 0..N /\ k - 1 \in 0..N
        OBVIOUS
    <3> QED BY <1>4, <3>1
  <2> HIDE DEF g
  <2> QED BY <2>1, <2>2 DEF Goes
<1> QED BY <1>2, <1>5

Prefix(s, n) == [i \in 1..n |-> s[i]]
Joined(s) == Seqs!FlattenSeq(s)

LEMMA PrefixIs ==
    ASSUME NEW S, NEW s \in Seq(S), NEW n \in 0..Len(s)
    PROVE  /\ Prefix(s, n) \in Seq(S) /\ Len(Prefix(s, n)) = n
           /\ \A i \in 1..n : Prefix(s, n)[i] = s[i]
           /\ Prefix(s, 0) = <<>>
           /\ Prefix(s, Len(s)) = s
           /\ n < Len(s) => Prefix(s, n + 1) = Append(Prefix(s, n), s[n + 1])
<1> DEFINE N == Len(s)
<1>1. N \in Nat /\ n \in Nat /\ \A i \in 1..N : s[i] \in S
    BY LenProperties, ElementOfSeq
<1> HIDE DEF N
<1>2. ASSUME NEW m \in 0..N
      PROVE  Prefix(s, m) \in Seq(S) /\ Len(Prefix(s, m)) = m /\ \A i \in 1..m : Prefix(s, m)[i] = s[i]
  <2>1. m \in Nat /\ \A i \in 1..m : s[i] \in S
      BY <1>1, <1>2
  <2> QED BY <2>1 DEF Prefix
<1>3. Prefix(s, 0) = <<>>
    BY DEF Prefix
<1>4. Prefix(s, N) = s
    BY SeqDef, LenProperties DEF Prefix, N
<1>5. ASSUME n < N PROVE Prefix(s, n + 1) = Append(Prefix(s, n), s[n + 1])
  <2> DEFINE p == Prefix(s, n)
             q == Prefix(s, n + 1)
             r == Append(p, s[n + 1])
  <2>1. n + 1 \in 0..N /\ n + 1 \in 1..N /\ n \in 0..N
      BY <1>1, <1>5
  <2>2. p \in Seq(S) /\ Len(p) = n /\ \A i \in 1..n : p[i] = s[i]
      BY <1>2, <2>1
  <2>3. q \in Seq(S) /\ Len(q) = n + 1 /\ \A i \in 1..(n + 1) : q[i] = s[i]
      BY <1>2, <2>1
  <2>4. s[n + 1] \in S
      BY <1>1, <2>1
  <2> HIDE DEF p, q
  <2>5. r \in Seq(S) /\ Len(r) = n + 1 /\ r[n + 1] = s[n + 1] /\ \A i \in 1..n : r[i] = p[i]
      BY <2>2, <2>4, AppendProperties
  <2> HIDE DEF r
  <2>6. \A i \in 1..(n + 1) : q[i] = r[i]
    <3>1. \A i \in 1..(n + 1) : i \in 1..n \/ i = n + 1
        BY <1>1
    <3> QED BY <2>2, <2>3, <2>5, <3>1
  <2>7. q = r
      BY <2>3, <2>5, <2>6, SeqEqual
  <2> QED BY <2>7 DEF p, q, r
<1> QED BY <1>2, <1>3, <1>4, <1>5 DEF N

\* What FlattenSeq joins, element by element.
JoinedTo(s) ==
    LET flatten[i \in 1..Len(s)] ==
            IF i = 1 THEN s[i] ELSE flatten[i - 1] \o s[i]
    IN  flatten

LEMMA JoinedToIs ==
    ASSUME NEW s, NEW N \in Nat, Len(s) = N, N > 0, NEW g, g[0] = <<>>,
           \A k \in 1..N : g[k] = g[k - 1] \o s[k], <<>> \o s[1] = s[1]
    PROVE  Joined(s) = g[N]
<1> DEFINE Eq(e) == e = [i \in 1..N |-> IF i = 1 THEN s[i] ELSE e[i - 1] \o s[i]]
           f == [i \in 1..N |-> g[i]]
           V == JoinedTo(s)
<1>1. Eq(f)
  <2> DEFINE h == [i \in 1..N |-> IF i = 1 THEN s[i] ELSE f[i - 1] \o s[i]]
  <2>1. ASSUME NEW i \in 1..N PROVE f[i] = h[i]
    <3>1. CASE i = 1
      <4>1. g[1] = g[0] \o s[1]
        <5>1. 1 \in 1..N /\ 1 - 1 = 0
            OBVIOUS
        <5> QED BY <5>1
      <4> QED BY <3>1, <4>1
    <3>2. CASE i # 1
      <4>1. i - 1 \in 1..N
          BY <3>2
      <4> QED BY <3>2, <4>1
    <3> QED BY <3>1, <3>2
  <2>2. f = [i \in 1..N |-> f[i]] /\ h = [i \in 1..N |-> h[i]]
      OBVIOUS
  <2>3. f = h
    <3> HIDE DEF f, h
    <3> QED BY <2>1, <2>2
  <2> QED BY <2>3
<1>2. Eq(V)
  <2>1. V = CHOOSE e : Eq(e)
      BY DEF JoinedTo
  <2> HIDE DEF Eq, V
  <2> QED BY <1>1, <2>1
<1>3. Joined(s) = V[N]
  <2>1. ~(Len(s) = 0)
      OBVIOUS
  <2> QED BY <2>1 DEF Joined, Seqs!FlattenSeq, JoinedTo
<1> HIDE DEF V
<1>4. V = [i \in 1..N |-> V[i]]
    BY <1>2
<1>5. V[1] = s[1] /\ \A i \in 1..N : i # 1 => V[i] = V[i - 1] \o s[i]
  <2>1. ASSUME NEW i \in 1..N PROVE V[i] = IF i = 1 THEN s[i] ELSE V[i - 1] \o s[i]
      BY <1>2
  <2>2. 1 \in 1..N
      OBVIOUS
  <2> HIDE DEF Eq
  <2> QED BY <2>1, <2>2
<1> DEFINE S == {k \in Nat : k \in 1..N => V[k] = g[k]}
<1>6. 0 \in S
    OBVIOUS
<1>7. ASSUME NEW k \in Nat, k \in S PROVE k + 1 \in S
  <2>1. SUFFICES ASSUME k + 1 \in 1..N PROVE V[k + 1] = g[k + 1]
      OBVIOUS
  <2>2. (k + 1) - 1 = k
      OBVIOUS
  <2>3. g[k + 1] = g[k] \o s[k + 1]
      BY <2>1, <2>2
  <2>4. CASE k = 0
    <3>1. k + 1 = 1
        BY <2>4
    <3>2. g[1] = g[0] \o s[1]
        BY <2>3, <2>4, <3>1
    <3> QED BY <1>5, <3>1, <3>2
  <2>5. CASE k # 0
    <3>1. k \in 1..N /\ k + 1 # 1
        BY <2>1, <2>5
    <3>2. V[k] = g[k]
        BY <1>7, <3>1
    <3> QED BY <1>5, <2>1, <2>2, <2>3, <3>1, <3>2
  <2> QED BY <2>4, <2>5
<1>8. V[N] = g[N]
  <2> HIDE DEF S
  <2>1. Nat \subseteq S
      BY <1>6, <1>7, SetInduction
  <2> USE DEF S
  <2>2. N \in 1..N
      OBVIOUS
  <2> QED BY <2>1, <2>2
<1> QED BY <1>3, <1>8

LEMMA JoinedIs ==
    ASSUME NEW S, NEW s \in Seq(Seq(S))
    PROVE  /\ Joined(Prefix(s, 0)) = <<>>
           /\ \A k \in 0..Len(s) : Joined(Prefix(s, k)) \in Seq(S)
           /\ \A k \in 1..Len(s) : Joined(Prefix(s, k)) = Joined(Prefix(s, k - 1)) \o s[k]
<1> DEFINE N == Len(s)
           A == Seq(S)
           rule == [p \in (1..N) \X A |-> p[2] \o s[p[1]]]
<1>1. N \in Nat /\ \A i \in 1..N : s[i] \in A
    BY LenProperties, ElementOfSeq
<1>2. <<>> \in A /\ \A a \in A : <<>> \o a = a
    BY EmptySeq, ConcatEmptySeq
<1> HIDE DEF N
<1>3. PICK f \in [0..N -> A] : Goes(f, N, <<>>, rule)
  <2>1. rule \in [(1..N) \X A -> A]
    <3>1. ASSUME NEW p \in (1..N) \X A PROVE p[2] \o s[p[1]] \in A
      <4>1. p[1] \in 1..N /\ p[2] \in A
          OBVIOUS
      <4>2. s[p[1]] \in A
          BY <1>1, <4>1
      <4> QED BY <4>1, <4>2, ConcatProperties
    <3> QED BY <3>1
  <2> HIDE DEF rule, A
  <2> QED BY <1>1, <1>2, <2>1, Going
<1>4. f[0] = <<>> /\ \A k \in 1..N : f[k] = f[k - 1] \o s[k]
  <2>1. f[0] = <<>>
      BY <1>3 DEF Goes
  <2>2. ASSUME NEW k \in 1..N PROVE f[k] = f[k - 1] \o s[k]
    <3>1. f[k] = rule[<<k, f[k - 1]>>]
        BY <1>3 DEF Goes
    <3>2. k - 1 \in 0..N
        BY <1>1
    <3>3. f[k - 1] \in A
        BY <3>2
    <3> QED BY <3>1, <3>3
  <2> QED BY <2>1, <2>2
<1>5. ASSUME NEW k \in 0..N PROVE Joined(Prefix(s, k)) = f[k]
  <2>1. CASE k = 0
    <3>1. Prefix(s, k) = <<>>
        BY <2>1 DEF Prefix
    <3>2. Joined(<<>>) = <<>>
        BY EmptySeq DEF Joined, Seqs!FlattenSeq
    <3> QED BY <1>4, <2>1, <3>1, <3>2
  <2>2. CASE k # 0
    <3> DEFINE p == Prefix(s, k)
               g == [i \in 0..k |-> f[i]]
    <3>1. k \in Nat /\ k > 0
        BY <1>1, <2>2
    <3>2. Len(p) = k /\ \A i \in 1..k : p[i] = s[i]
        BY PrefixIs DEF N
    <3>3. g \in [0..k -> A] /\ g[0] = <<>> /\ g[k] = f[k]
        BY <1>1, <1>4, <3>1
    <3>4. ASSUME NEW i \in 1..k PROVE g[i] = g[i - 1] \o p[i]
      <4>1. i \in 0..k /\ i - 1 \in 0..k /\ i \in 1..N
          BY <1>1, <3>1
      <4>2. g[i] = f[i] /\ g[i - 1] = f[i - 1]
          BY <4>1
      <4> QED BY <1>4, <3>2, <4>1, <4>2
    <3>5. <<>> \o p[1] = p[1]
      <4>1. 1 \in 1..k /\ 1 \in 1..N
          BY <1>1, <3>1
      <4> HIDE DEF p
      <4> QED BY <1>1, <1>2, <3>2, <4>1
    <3> HIDE DEF p, g, A
    <3>6. Joined(p) = g[k]
      <4>1. Len(p) = k
          BY <3>2
      <4>2. g[0] = <<>>
          BY <3>3
      <4>3. \A i \in 1..k : g[i] = g[i - 1] \o p[i]
          BY <3>4
      <4>4. k \in Nat /\ k > 0
          BY <3>1
      <4> QED BY <3>5, <4>1, <4>2, <4>3, <4>4, JoinedToIs, ZenonT(60)
    <3> QED BY <3>3, <3>6 DEF p
  <2> QED BY <2>1, <2>2
<1>6. \A k \in 1..N : k \in 0..N /\ k - 1 \in 0..N
    BY <1>1
<1>7. 0 \in 0..N
    BY <1>1
<1> QED BY <1>3, <1>4, <1>5, <1>6, <1>7 DEF N

\* Where the k-th element ends.
Until(s, k) == Len(Joined(Prefix(s, k)))

LEMMA UntilIs ==
    ASSUME NEW S, NEW s \in Seq(Seq(S))
    PROVE  /\ Until(s, 0) = 0
           /\ \A k \in 0..Len(s) : Until(s, k) \in Nat
           /\ \A k \in 1..Len(s) : Until(s, k) = Until(s, k - 1) + Len(s[k])
<1>1. Until(s, 0) = 0
    BY JoinedIs, EmptySeq DEF Until
<1>2. ASSUME NEW k \in 0..Len(s) PROVE Until(s, k) \in Nat
    BY JoinedIs, LenProperties DEF Until
<1>3. ASSUME NEW k \in 1..Len(s) PROVE Until(s, k) = Until(s, k - 1) + Len(s[k])
  <2>1. k - 1 \in 0..Len(s)
      BY LenProperties
  <2> DEFINE p == Joined(Prefix(s, k - 1))
             q == s[k]
  <2>2. p \in Seq(S) /\ q \in Seq(S)
      BY <2>1, JoinedIs, ElementOfSeq
  <2>3. Joined(Prefix(s, k)) = p \o q
      BY JoinedIs
  <2> HIDE DEF p, q
  <2>4. Len(p \o q) = Len(p) + Len(q)
      BY <2>2, ConcatProperties
  <2> QED BY <2>3, <2>4 DEF Until, p, q
<1> QED BY <1>1, <1>2, <1>3

LEMMA UntilMonotone ==
    ASSUME NEW S, NEW s \in Seq(Seq(S)), NEW j \in 0..Len(s), NEW k \in 0..Len(s), j <= k
    PROVE  Until(s, j) <= Until(s, k)
<1> DEFINE N == Len(s)
           T == {n \in Nat : j <= n /\ n <= N => Until(s, j) <= Until(s, n)}
<1>1. N \in Nat
    BY LenProperties
<1>2. /\ \A n \in 0..N : Until(s, n) \in Nat
      /\ \A n \in 1..N : Until(s, n) = Until(s, n - 1) + Len(s[n]) /\ Len(s[n]) \in Nat
  <2>1. \A n \in 1..N : Len(s[n]) \in Nat
      BY ElementOfSeq, LenProperties
  <2> QED BY <2>1, UntilIs
<1> HIDE DEF N
<1>3. 0 \in T
  <2>1. SUFFICES ASSUME j <= 0 PROVE Until(s, j) <= Until(s, 0)
      OBVIOUS
  <2>2. j = 0 /\ 0 \in 0..N
      BY <1>1, <2>1 DEF N
  <2>3. Until(s, 0) \in Nat
      BY <1>2, <2>2
  <2> QED BY <2>2, <2>3
<1>4. ASSUME NEW n \in Nat, n \in T PROVE n + 1 \in T
  <2>1. SUFFICES ASSUME j <= n + 1, n + 1 <= N PROVE Until(s, j) <= Until(s, n + 1)
      OBVIOUS
  <2>2. j \in 0..N /\ n + 1 \in 1..N /\ n + 1 \in 0..N /\ n \in 0..N /\ (n + 1) - 1 = n /\ n <= N
      BY <1>1, <2>1 DEF N
  <2>3. /\ Until(s, j) \in Nat /\ Until(s, n) \in Nat /\ Len(s[n + 1]) \in Nat
        /\ Until(s, n + 1) = Until(s, n) + Len(s[n + 1])
      BY <1>2, <2>2
  <2>4. CASE j = n + 1
    <3>1. \A a \in Nat : a <= a
        OBVIOUS
    <3> QED BY <2>3, <2>4, <1>2, <2>2, <3>1
  <2>5. CASE j # n + 1
    <3>1. j <= n
        BY <2>1, <2>2, <2>5
    <3>2. Until(s, j) <= Until(s, n)
        BY <1>4, <2>2, <3>1
    <3>3. \A a, b, d \in Nat : a <= b => a <= b + d
        OBVIOUS
    <3> QED BY <2>3, <3>2, <3>3
  <2> QED BY <2>4, <2>5
<1>5. Nat \subseteq T
  <2> HIDE DEF T
  <2> QED BY <1>3, <1>4, SetInduction
<1> QED BY <1>1, <1>5 DEF N

LEMMA JoinedAt ==
    ASSUME NEW S, NEW s \in Seq(Seq(S)), NEW k \in 1..Len(s), NEW q \in 1..Len(s[k])
    PROVE  /\ Until(s, k - 1) + q \in 1..Len(Joined(s))
           /\ Joined(s)[Until(s, k - 1) + q] = s[k][q]
           /\ Joined(s) \in Seq(S) /\ Len(Joined(s)) = Until(s, Len(s))
<1> DEFINE N == Len(s)
           J(n) == Joined(Prefix(s, n))
           p == Until(s, k - 1) + q
           T == {n \in Nat : k <= n /\ n <= N => p <= Until(s, n) /\ J(n)[p] = s[k][q]}
<1>1. N \in Nat /\ k \in Nat /\ k >= 1 /\ k <= N /\ k - 1 \in 0..N
    BY LenProperties
<1>2. /\ \A n \in 0..N : Until(s, n) \in Nat
      /\ \A n \in 1..N : Until(s, n) = Until(s, n - 1) + Len(s[n]) /\ Len(s[n]) \in Nat
  <2>1. \A n \in 1..N : Len(s[n]) \in Nat
      BY ElementOfSeq, LenProperties
  <2> QED BY <2>1, UntilIs
<1>3. /\ \A n \in 0..N : J(n) \in Seq(S) /\ Len(J(n)) = Until(s, n)
      /\ \A n \in 1..N : J(n) = J(n - 1) \o s[n] /\ s[n] \in Seq(S)
    BY JoinedIs, ElementOfSeq DEF Until
<1>4. q \in Nat /\ q >= 1 /\ q <= Len(s[k]) /\ p \in Nat /\ p >= 1 /\ p > Until(s, k - 1)
  <2>1. Until(s, k - 1) \in Nat /\ Len(s[k]) \in Nat
      BY <1>1, <1>2
  <2> QED BY <2>1
<1>5. J(N) = Joined(s)
    BY PrefixIs
<1>6. p <= Until(s, k) /\ J(k)[p] = s[k][q]
  <2> DEFINE a == J(k - 1)
             b == s[k]
  <2>1. a \in Seq(S) /\ b \in Seq(S) /\ Len(a) = Until(s, k - 1) /\ Len(b) \in Nat
        /\ J(k) = a \o b /\ Until(s, k) = Len(a) + Len(b)
      BY <1>1, <1>2, <1>3
  <2>2. Len(a) \in Nat
      BY <1>1, <1>2, <2>1
  <2> HIDE DEF a, J
  <2>3. p = Len(a) + q /\ q \in Nat /\ q >= 1 /\ q <= Len(b)
      BY <1>4, <2>1
  <2> HIDE DEF b, p
  <2>4. p \in 1..(Len(a) + Len(b)) /\ ~(p <= Len(a)) /\ p - Len(a) = q
      BY <2>1, <2>2, <2>3
  <2>5. (a \o b)[p] = b[q]
      BY <2>1, <2>4, ConcatProperties
  <2> QED BY <2>1, <2>2, <2>3, <2>5 DEF b
<1> HIDE DEF J, p, N
<1>7. 0 \in T
    BY <1>1
<1>8. ASSUME NEW n \in Nat, n \in T PROVE n + 1 \in T
  <2>1. SUFFICES ASSUME k <= n + 1, n + 1 <= N PROVE p <= Until(s, n + 1) /\ J(n + 1)[p] = s[k][q]
      OBVIOUS
  <2>2. CASE k = n + 1
      BY <1>6, <2>2
  <2>3. CASE k # n + 1
    <3>1. k <= n /\ n <= N /\ n + 1 \in 1..N /\ n \in 0..N /\ (n + 1) - 1 = n
        BY <1>1, <2>1, <2>3
    <3>2. p <= Until(s, n) /\ J(n)[p] = s[k][q]
        BY <1>8, <3>1
    <3> DEFINE a == J(n)
               b == s[n + 1]
    <3>3. a \in Seq(S) /\ b \in Seq(S) /\ Len(a) = Until(s, n) /\ J(n + 1) = a \o b
        BY <1>3, <3>1
    <3>4. Until(s, n) \in Nat /\ Len(b) \in Nat /\ Until(s, n + 1) = Until(s, n) + Len(b)
        BY <1>2, <3>1
    <3> HIDE DEF a, b
    <3>5. p \in 1..(Len(a) + Len(b)) /\ p <= Len(a)
        BY <1>4, <3>2, <3>3, <3>4
    <3>6. (a \o b)[p] = a[p]
        BY <3>3, <3>5, ConcatProperties
    <3>7. p <= Until(s, n + 1)
        BY <1>4, <3>2, <3>4
    <3> QED BY <3>2, <3>3, <3>6, <3>7 DEF a
  <2> QED BY <2>2, <2>3
<1>9. p <= Until(s, N) /\ J(N)[p] = s[k][q]
  <2>1. Nat \subseteq T
    <3> HIDE DEF T
    <3> QED BY <1>7, <1>8, SetInduction
  <2> QED BY <1>1, <2>1
<1>10. N \in 0..N
    BY <1>1
<1>11. Joined(s) \in Seq(S) /\ Len(Joined(s)) = Until(s, N)
    BY <1>3, <1>5, <1>10
<1>12. p \in 1..Len(Joined(s))
  <2>1. Until(s, N) \in Nat
      BY <1>2, <1>10
  <2> QED BY <1>4, <1>9, <1>11, <2>1
<1> QED BY <1>5, <1>9, <1>11, <1>12 DEF p, N
-----------------------------------------------------------------------------
(* The numbers of the lines, as the server reads them.                      *)

\* What NumberOf has after each digit.
Numbers(d) ==
    LET value[i \in 0..Len(d)] ==
            IF i = 0 THEN 0 ELSE value[i - 1] * 10 + DigitValue[d[i]]
    IN  value

LEMMA NumbersAre ==
    ASSUME NEW d \in Seq(Digit)
    PROVE  /\ Numbers(d) \in [0..Len(d) -> Nat]
           /\ Numbers(d)[0] = 0
           /\ \A k \in 1..Len(d) : Numbers(d)[k] = Numbers(d)[k - 1] * 10 + DigitValue[d[k]]
           /\ NumberOf(d) = Numbers(d)[Len(d)]
<1> DEFINE N == Len(d)
           rule == [p \in (1..N) \X Nat |-> p[2] * 10 + DigitValue[d[p[1]]]]
<1>1. N \in Nat /\ \A k \in 1..N : DigitValue[d[k]] \in 0..9
    BY DigitRange, ElementOfSeq, LenProperties
<1> HIDE DEF N
<1>2. PICK f \in [0..N -> Nat] : Goes(f, N, 0, rule)
  <2>1. rule \in [(1..N) \X Nat -> Nat]
    <3>1. ASSUME NEW p \in (1..N) \X Nat PROVE p[2] * 10 + DigitValue[d[p[1]]] \in Nat
      <4>1. p[1] \in 1..N /\ p[2] \in Nat
          OBVIOUS
      <4>2. DigitValue[d[p[1]]] \in Nat
        <5>1. DigitValue[d[p[1]]] \in 0..9
            BY <1>1, <4>1
        <5> QED BY <5>1
      <4>3. \A a, b \in Nat : a * 10 + b \in Nat
          OBVIOUS
      <4> QED BY <4>1, <4>2, <4>3
    <3> QED BY <3>1
  <2> HIDE DEF rule
  <2> QED BY <1>1, <2>1, Going
<1>3. f[0] = 0
    BY <1>2 DEF Goes
<1>4. ASSUME NEW k \in 1..N PROVE f[k] = f[k - 1] * 10 + DigitValue[d[k]]
  <2>1. k - 1 \in 0..N
      BY <1>1
  <2>2. f[k] = rule[<<k, f[k - 1]>>]
      BY <1>2 DEF Goes
  <2>3. f[k - 1] \in Nat
      BY <2>1
  <2> DEFINE p == <<k, f[k - 1]>>
  <2>4. p \in (1..N) \X Nat /\ p[1] = k /\ p[2] = f[k - 1]
      BY <2>3
  <2> HIDE DEF p
  <2>5. rule[p] = p[2] * 10 + DigitValue[d[p[1]]]
      BY <2>4
  <2> QED BY <2>2, <2>4, <2>5 DEF p
<1> DEFINE Eq(e) == e = [k \in 0..N |-> IF k = 0 THEN 0 ELSE e[k - 1] * 10 + DigitValue[d[k]]]
           V == Numbers(d)
<1>5. Eq(f)
  <2> DEFINE h == [k \in 0..N |-> IF k = 0 THEN 0 ELSE f[k - 1] * 10 + DigitValue[d[k]]]
  <2>1. ASSUME NEW k \in 0..N PROVE f[k] = h[k]
    <3>1. CASE k = 0
        BY <1>3, <3>1
    <3>2. CASE k # 0
      <4>1. k \in 1..N
          BY <1>1, <3>2
      <4>2. h[k] = f[k - 1] * 10 + DigitValue[d[k]]
          BY <3>2
      <4> QED BY <1>4, <4>1, <4>2
    <3> QED BY <3>1, <3>2
  <2>2. f = [k \in 0..N |-> f[k]] /\ h = [k \in 0..N |-> h[k]]
      OBVIOUS
  <2>3. f = h
    <3> HIDE DEF h
    <3> QED BY <2>1, <2>2
  <2> QED BY <2>3
<1>6. Eq(V)
  <2>1. V = CHOOSE e : Eq(e)
      BY DEF Numbers, N
  <2> HIDE DEF Eq, V
  <2> QED BY <1>5, <2>1
<1> HIDE DEF V
<1>7. V = [k \in 0..N |-> V[k]] /\ V[0] = 0
    BY <1>1, <1>6
<1>8. ASSUME NEW k \in 1..N PROVE V[k] = V[k - 1] * 10 + DigitValue[d[k]]
  <2>1. k \in 0..N /\ k # 0
      BY <1>1
  <2> QED BY <1>6, <2>1
<1>9. \A k \in 0..N : V[k] \in Nat
  <2> DEFINE S == {k \in Nat : k \in 0..N => V[k] \in Nat}
  <2>1. 0 \in S
      BY <1>7
  <2>2. ASSUME NEW k \in Nat, k \in S PROVE k + 1 \in S
    <3>1. SUFFICES ASSUME k + 1 \in 0..N PROVE V[k + 1] \in Nat
        OBVIOUS
    <3>2. k \in 0..N /\ k + 1 \in 1..N /\ (k + 1) - 1 = k
      <4> HIDE DEF S
      <4> QED BY <1>1, <3>1
    <3>3. V[k] \in Nat /\ DigitValue[d[k + 1]] \in 0..9
        BY <1>1, <2>2, <3>2
    <3>4. V[k + 1] = V[k] * 10 + DigitValue[d[k + 1]]
        BY <1>8, <3>2
    <3>5. \A a \in Nat, b \in 0..9 : a * 10 + b \in Nat
        OBVIOUS
    <3> QED BY <3>3, <3>4, <3>5
  <2> HIDE DEF S
  <2>3. Nat \subseteq S
      BY <2>1, <2>2, SetInduction
  <2> USE DEF S
  <2> QED BY <1>1, <2>3
<1>10. NumberOf(d) = V[N]
    BY DEF NumberOf, Numbers, V, N
<1> QED BY <1>7, <1>8, <1>9, <1>10 DEF V, N

LEMMA NumberOfIs ==
    ASSUME NEW d \in Seq(Digit), NEW x \in Digit
    PROVE  /\ NumberOf(d) \in Nat
           /\ NumberOf(Append(d, x)) = NumberOf(d) * 10 + DigitValue[x]
<1> DEFINE e == Append(d, x)
           V == Numbers(d)
           W == Numbers(e)
           N == Len(d)
<1>1. /\ N \in Nat /\ e \in Seq(Digit) /\ Len(e) = N + 1 /\ e[N + 1] = x
      /\ \A k \in 1..N : e[k] = d[k]
    BY AppendProperties, LenProperties
<1>2. /\ V \in [0..N -> Nat] /\ V[0] = 0 /\ NumberOf(d) = V[N]
      /\ \A k \in 1..N : V[k] = V[k - 1] * 10 + DigitValue[d[k]]
    BY NumbersAre
<1>3. /\ W[0] = 0 /\ NumberOf(e) = W[N + 1]
      /\ \A k \in 1..(N + 1) : W[k] = W[k - 1] * 10 + DigitValue[e[k]]
  <2> HIDE DEF e
  <2> QED BY <1>1, NumbersAre
<1> HIDE DEF e, V, W, N
<1>4. V[N] = W[N]
  <2> DEFINE S == {k \in Nat : k <= N => V[k] = W[k]}
  <2>1. 0 \in S
      BY <1>2, <1>3
  <2>2. ASSUME NEW k \in Nat, k \in S PROVE k + 1 \in S
    <3>1. SUFFICES ASSUME k + 1 <= N PROVE V[k + 1] = W[k + 1]
        OBVIOUS
    <3>2. k + 1 \in 1..N /\ k + 1 \in 1..(N + 1) /\ (k + 1) - 1 = k /\ k <= N
        BY <1>1, <3>1
    <3>3. V[k] = W[k]
        BY <2>2, <3>2
    <3>4. V[k + 1] = V[k] * 10 + DigitValue[d[k + 1]]
        BY <1>2, <3>2
    <3>5. W[k + 1] = W[k] * 10 + DigitValue[e[k + 1]]
        BY <1>3, <3>2
    <3> QED BY <1>1, <3>2, <3>3, <3>4, <3>5
  <2> HIDE DEF S
  <2>3. Nat \subseteq S
      BY <2>1, <2>2, SetInduction
  <2> USE DEF S
  <2> QED BY <1>1, <2>3
<1>5. W[N + 1] = W[N] * 10 + DigitValue[x]
  <2>1. N + 1 \in 1..(N + 1) /\ (N + 1) - 1 = N
      BY <1>1
  <2> QED BY <1>1, <1>3, <2>1
<1>6. V[N] \in Nat
    BY <1>1, <1>2
<1> QED BY <1>2, <1>3, <1>4, <1>5, <1>6 DEF e

LEMMA NumberOfDecimal ==
    ASSUME NEW n \in Nat
    PROVE  NumberOf(Decimal[n]) = n
<1> DEFINE S == {k \in Nat : NumberOf(Decimal[k]) = k}
<1>1. ASSUME NEW k \in Nat, \A j \in 0..(k - 1) : j \in S PROVE k \in S
  <2>1. SUFFICES NumberOf(Decimal[k]) = k
      OBVIOUS
  <2>2. CASE k < 10
    <3>1. PICK x \in Digit : Decimal[k] = <<x>> /\ DigitValue[x] = k
        BY <2>2, DecimalIs
    <3>2. <<x>> = Append(<<>>, x) /\ <<>> \in Seq(Digit)
        BY EmptySeq
    <3>3. NumberOf(Append(<<>>, x)) = NumberOf(<<>>) * 10 + DigitValue[x]
        BY <3>2, NumberOfIs
    <3>4. NumberOf(<<>>) = 0
        BY <3>2, NumbersAre, EmptySeq
    <3>5. NumberOf(<<>>) * 10 + DigitValue[x] = k
        BY <3>1, <3>4
    <3> QED BY <3>1, <3>2, <3>3, <3>5
  <2>3. CASE k >= 10
    <3> DEFINE q == k \div 10
    <3>1. PICK x \in Digit : Decimal[k] = Append(Decimal[q], x) /\ DigitValue[x] = k % 10
        BY <2>3, DecimalIs
    <3>2. q \in Nat /\ q < k /\ k = q * 10 + (k % 10)
        BY <2>3, DivMod
    <3>3. Decimal[q] \in Seq(Digit)
        BY <3>2, DecimalIs
    <3> HIDE DEF q
    <3>4. NumberOf(Decimal[q]) = q
      <4>1. q \in 0..(k - 1)
          BY <3>2
      <4> QED BY <1>1, <4>1
    <3>5. NumberOf(Append(Decimal[q], x)) = NumberOf(Decimal[q]) * 10 + DigitValue[x]
        BY <3>3, NumberOfIs
    <3> QED BY <3>1, <3>2, <3>4, <3>5
  <2> QED BY <2>2, <2>3
<1>2. Nat \subseteq S
  <2> HIDE DEF S
  <2> QED BY <1>1, StrongInduction
<1> QED BY <1>2
-----------------------------------------------------------------------------
(* The bytes of a command: the line of its count, and for each argument the *)
(* line of its size and its body.                                           *)

LEMMA SizeLineIs ==
    ASSUME NEW n \in Nat, NEW mark \in {"*", "$"}
    PROVE  /\ SizeLine(mark, n) \in Seq(Char) /\ Len(SizeLine(mark, n)) > 3
           /\ NumberIn(SizeLine(mark, n), mark) = n
           /\ Ends(SizeLine(mark, n))
           /\ \A m \in 1..(Len(SizeLine(mark, n)) - 1) : ~Ends(Prefix(SizeLine(mark, n), m))
<1> DEFINE d == Decimal[n]
           w == SizeLine(mark, n)
           L == Len(d)
<1>1. d \in Seq(Digit) /\ d # <<>> /\ NumberOf(d) = n
    BY DecimalIs, NumberOfDecimal
<1>2. d \in Seq(Char) /\ mark \in Char
  <2>1. Digit \subseteq Char
      BY DEF Char
  <2>2. mark \in Char
      BY DEF Char, Mark
  <2> HIDE DEF d
  <2> QED BY <1>1, <2>1, <2>2, SeqMonotonic
<1>3. w = Line(mark, d)
    BY DEF SizeLine, Line
<1> HIDE DEF d, w
<1>4. L \in Nat /\ L > 0
    BY <1>1, EmptySeq, LenProperties
<1> HIDE DEF L
<1>5. /\ w \in Seq(Char) /\ Len(w) = L + 3 /\ w[1] = mark
      /\ \A i \in 1..L : w[i + 1] = d[i]
      /\ w[L + 2] = "CR" /\ w[L + 3] = "LF"
  <2> DEFINE z == Line(mark, d)
  <2>1. /\ z \in Seq(Char) /\ Len(z) = Len(d) + 3
        /\ z[1] = mark /\ \A i \in 1..Len(d) : z[i + 1] = d[i]
        /\ z[Len(d) + 2] = "CR" /\ z[Len(d) + 3] = "LF"
      BY <1>2, LineIs
  <2> HIDE DEF z
  <2>2. w = z
      BY <1>3 DEF z
  <2> QED BY <2>1, <2>2 DEF L
<1>6. \A i \in 1..(L + 1) : w[i] # "CR"
  <2>1. ASSUME NEW i \in 1..L PROVE d[i] # "CR"
    <3>1. d[i] \in Digit
        BY <1>1, ElementOfSeq DEF L
    <3> QED BY <3>1 DEF Digit
  <2>2. ASSUME NEW i \in 1..(L + 1) PROVE w[i] # "CR"
    <3>1. CASE i = 1
        BY <1>5, <3>1
    <3>2. CASE i # 1
      <4>1. i - 1 \in 1..L /\ (i - 1) + 1 = i
          BY <1>4, <3>2
      <4> QED BY <1>5, <2>1, <4>1
    <3> QED BY <3>1, <3>2
  <2> QED BY <2>2
<1>7. SubSeq(w, 2, Len(w) - 2) = d
  <2> DEFINE z == SubSeq(w, 2, L + 1)
  <2>1. \A i \in 2..(L + 1) : w[i] \in Char
    <3>1. \A i \in 2..(L + 1) : i \in 1..Len(w)
        BY <1>4, <1>5
    <3> QED BY <1>5, <3>1, ElementOfSeq
  <2>2. /\ z \in Seq(Char) /\ Len(z) = L
        /\ \A i \in 1..L : z[i] = w[2 + i - 1]
    <3>1. L + 1 \in Int /\ 2 \in Int /\ 2 <= L + 1 /\ (L + 1) - 2 + 1 = L
        BY <1>4
    <3>2. /\ z \in Seq(Char) /\ Len(z) = (IF 2 <= L + 1 THEN (L + 1) - 2 + 1 ELSE 0)
          /\ \A i \in 1..((L + 1) - 2 + 1) : z[i] = w[2 + i - 1]
        BY <2>1, <3>1, SubSeqProperties
    <3> HIDE DEF z
    <3> QED BY <3>1, <3>2
  <2>3. \A i \in 1..L : z[i] = d[i]
    <3>1. \A i \in 1..L : 2 + i - 1 = i + 1
        BY <1>4
    <3> QED BY <1>5, <2>2, <3>1
  <2>4. Len(w) - 2 = L + 1
      BY <1>4, <1>5
  <2> HIDE DEF z
  <2>5. z = d
      BY <1>2, <2>2, <2>3, SeqEqual DEF L
  <2> QED BY <2>4, <2>5 DEF z
<1>8. NumberIn(w, mark) = n
  <2>1. w # <<>> /\ Head(w) = mark
    <3>1. w # <<>>
        BY <1>4, <1>5, EmptySeq
    <3> QED BY <1>5, <3>1
  <2>2. \A i \in 1..Len(d) : d[i] \in Digit
      BY <1>1, ElementOfSeq
  <2> QED BY <1>1, <1>7, <2>1, <2>2 DEF NumberIn
<1>9. Ends(w)
  <2>1. Len(w) >= 2 /\ Len(w) - 1 = L + 2 /\ Len(w) = L + 3
      BY <1>4, <1>5
  <2>2. SubSeq(w, L + 2, L + 3) = CRLF
    <3> DEFINE z == SubSeq(w, L + 2, L + 3)
    <3>1. \A i \in (L + 2)..(L + 3) : w[i] \in Char
      <4>1. \A i \in (L + 2)..(L + 3) : i \in 1..Len(w)
          BY <1>4, <1>5
      <4> QED BY <1>5, <4>1, ElementOfSeq
    <3>2. /\ L + 2 \in Int /\ L + 3 \in Int /\ L + 2 <= L + 3 /\ (L + 3) - (L + 2) + 1 = 2
          /\ (L + 2) + 1 - 1 = L + 2 /\ (L + 2) + 2 - 1 = L + 3
        BY <1>4
    <3>3. /\ z \in Seq(Char) /\ Len(z) = 2
          /\ \A i \in 1..2 : z[i] = w[(L + 2) + i - 1]
      <4>1. /\ z \in Seq(Char)
            /\ Len(z) = (IF L + 2 <= L + 3 THEN (L + 3) - (L + 2) + 1 ELSE 0)
            /\ \A i \in 1..((L + 3) - (L + 2) + 1) : z[i] = w[(L + 2) + i - 1]
          BY <3>1, <3>2, SubSeqProperties
      <4> HIDE DEF z
      <4> QED BY <3>2, <4>1
    <3> HIDE DEF z
    <3>4. z[1] = "CR" /\ z[2] = "LF"
        BY <1>5, <3>2, <3>3
    <3>5. CRLF \in Seq(Char) /\ Len(CRLF) = 2 /\ CRLF[1] = "CR" /\ CRLF[2] = "LF"
        BY DEF CRLF, Char, Control
    <3>6. \A i \in 1..2 : z[i] = CRLF[i]
      <4>1. \A i \in 1..2 : i = 1 \/ i = 2
          OBVIOUS
      <4> QED BY <3>4, <3>5, <4>1
    <3>7. z = CRLF
        BY <3>3, <3>5, <3>6, SeqEqual
    <3> QED BY <3>7 DEF z
  <2> QED BY <2>1, <2>2 DEF Ends
<1>10. ASSUME NEW m \in 1..(Len(w) - 1), Ends(Prefix(w, m)) PROVE FALSE
  <2> DEFINE p == Prefix(w, m)
             z == SubSeq(p, m - 1, m)
  <2>1. m \in 0..Len(w) /\ m \in Nat /\ m <= L + 2
      BY <1>4, <1>5
  <2>2. p \in Seq(Char) /\ Len(p) = m /\ \A i \in 1..m : p[i] = w[i]
      BY <1>5, <2>1, PrefixIs
  <2> HIDE DEF p
  <2>3. m >= 2 /\ z = CRLF
      BY <1>10, <2>2 DEF Ends, p
  <2>4. z[1] = p[m - 1]
    <3>1. \A i \in (m - 1)..m : p[i] \in Char
      <4>1. \A i \in (m - 1)..m : i \in 1..Len(p)
          BY <2>1, <2>2, <2>3
      <4> QED BY <2>2, <4>1, ElementOfSeq
    <3>2. m - 1 \in Int /\ m \in Int /\ 1 \in 1..(m - (m - 1) + 1) /\ (m - 1) + 1 - 1 = m - 1
        BY <2>1
    <3>3. \A i \in 1..(m - (m - 1) + 1) : z[i] = p[(m - 1) + i - 1]
        BY <3>1, <3>2, SubSeqProperties
    <3> HIDE DEF z
    <3> QED BY <3>2, <3>3
  <2>5. z[1] = "CR"
    <3> HIDE DEF z
    <3> QED BY <2>3 DEF CRLF
  <2>6. m - 1 \in 1..(L + 1) /\ m - 1 \in 1..m
      BY <1>4, <2>1, <2>3
  <2> QED BY <1>6, <2>2, <2>4, <2>5, <2>6
<1>11. Len(w) > 3
    BY <1>4, <1>5
<1> QED BY <1>5, <1>8, <1>9, <1>10, <1>11 DEF w

Body(item) == item \o CRLF

LEMMA BodyIs ==
    ASSUME NEW s \in Seq(Char)
    PROVE  /\ Body(s) \in Seq(Char) /\ Len(Body(s)) = Len(s) + 2
           /\ Ends(Body(s)) /\ SubSeq(Body(s), 1, Len(s)) = s
<1> DEFINE w == Body(s)
           L == Len(s)
<1>1. CRLF \in Seq(Char) /\ Len(CRLF) = 2 /\ CRLF[1] = "CR" /\ CRLF[2] = "LF"
    BY DEF CRLF, Char, Control
<1>2. L \in Nat
    BY LenProperties
<1>3. /\ w \in Seq(Char) /\ Len(w) = L + 2
      /\ \A i \in 1..(L + 2) : w[i] = IF i <= L THEN s[i] ELSE CRLF[i - L]
  <2>1. /\ w \in Seq(Char) /\ Len(w) = L + Len(CRLF)
        /\ \A i \in 1..(L + Len(CRLF)) : w[i] = IF i <= L THEN s[i] ELSE CRLF[i - L]
      BY <1>1, ConcatProperties DEF Body
  <2> HIDE DEF w, L
  <2> QED BY <1>1, <2>1
<1> HIDE DEF w, L
<1>4. w[L + 1] = "CR" /\ w[L + 2] = "LF" /\ \A i \in 1..L : w[i] = s[i]
  <2>1. /\ L + 1 \in 1..(L + 2) /\ L + 2 \in 1..(L + 2) /\ ~(L + 1 <= L) /\ ~(L + 2 <= L)
        /\ (L + 1) - L = 1 /\ (L + 2) - L = 2 /\ \A i \in 1..L : i \in 1..(L + 2) /\ i <= L
      BY <1>2
  <2> QED BY <1>1, <1>3, <2>1
<1>5. Ends(w)
  <2>1. Len(w) >= 2 /\ Len(w) - 1 = L + 1 /\ Len(w) = L + 2
      BY <1>2, <1>3
  <2>2. SubSeq(w, L + 1, L + 2) = CRLF
    <3> DEFINE z == SubSeq(w, L + 1, L + 2)
    <3>1. \A i \in (L + 1)..(L + 2) : w[i] \in Char
      <4>1. \A i \in (L + 1)..(L + 2) : i \in 1..Len(w)
          BY <1>2, <1>3
      <4> QED BY <1>3, <4>1, ElementOfSeq
    <3>2. /\ L + 1 \in Int /\ L + 2 \in Int /\ L + 1 <= L + 2 /\ (L + 2) - (L + 1) + 1 = 2
          /\ (L + 1) + 1 - 1 = L + 1 /\ (L + 1) + 2 - 1 = L + 2
        BY <1>2
    <3>3. /\ z \in Seq(Char) /\ Len(z) = 2
          /\ \A i \in 1..2 : z[i] = w[(L + 1) + i - 1]
      <4>1. /\ z \in Seq(Char)
            /\ Len(z) = (IF L + 1 <= L + 2 THEN (L + 2) - (L + 1) + 1 ELSE 0)
            /\ \A i \in 1..((L + 2) - (L + 1) + 1) : z[i] = w[(L + 1) + i - 1]
          BY <3>1, <3>2, SubSeqProperties
      <4> HIDE DEF z
      <4> QED BY <3>2, <4>1
    <3> HIDE DEF z
    <3>4. z[1] = "CR" /\ z[2] = "LF"
        BY <1>4, <3>2, <3>3
    <3>5. \A i \in 1..2 : z[i] = CRLF[i]
      <4>1. \A i \in 1..2 : i = 1 \/ i = 2
          OBVIOUS
      <4> QED BY <1>1, <3>4, <4>1
    <3>6. z = CRLF
        BY <1>1, <3>3, <3>5, SeqEqual
    <3> QED BY <3>6 DEF z
  <2> QED BY <2>1, <2>2 DEF Ends
<1>6. SubSeq(w, 1, L) = s
  <2> DEFINE z == SubSeq(w, 1, L)
  <2>1. \A i \in 1..L : w[i] \in Char
    <3>1. \A i \in 1..L : i \in 1..Len(w)
        BY <1>2, <1>3
    <3> QED BY <1>3, <3>1, ElementOfSeq
  <2>2. z \in Seq(Char) /\ Len(z) = L /\ \A i \in 1..L : z[i] = w[1 + i - 1]
    <3>1. L \in Int /\ 1 \in Int /\ L - 1 + 1 = L /\ (1 <= L \/ L = 0)
        BY <1>2
    <3>2. /\ z \in Seq(Char) /\ Len(z) = (IF 1 <= L THEN L - 1 + 1 ELSE 0)
          /\ \A i \in 1..(L - 1 + 1) : z[i] = w[1 + i - 1]
        BY <2>1, <3>1, SubSeqProperties
    <3> HIDE DEF z
    <3> QED BY <3>1, <3>2
  <2>3. \A i \in 1..L : z[i] = s[i]
    <3>1. \A i \in 1..L : 1 + i - 1 = i
        BY <1>2
    <3> QED BY <1>4, <2>2, <3>1
  <2> HIDE DEF z
  <2>4. z = s
      BY <2>2, <2>3, SeqEqual DEF L
  <2> QED BY <2>4 DEF z
<1> QED BY <1>3, <1>5, <1>6 DEF w, L

LEMMA ConcatAt ==
    ASSUME NEW S, NEW a \in Seq(S), NEW b \in Seq(S)
    PROVE  /\ a \o b \in Seq(S) /\ Len(a \o b) = Len(a) + Len(b)
           /\ \A i \in 1..Len(a) : (a \o b)[i] = a[i]
           /\ \A i \in 1..Len(b) : (a \o b)[Len(a) + i] = b[i]
<1> DEFINE z == a \o b
           M == Len(a)
           N == Len(b)
<1>1. /\ z \in Seq(S) /\ Len(z) = M + N
      /\ \A i \in 1..(M + N) : z[i] = IF i <= M THEN a[i] ELSE b[i - M]
    BY ConcatProperties
<1>2. M \in Nat /\ N \in Nat
    BY LenProperties
<1> HIDE DEF z, M, N
<1>3. \A i \in 1..M : z[i] = a[i]
  <2>1. \A i \in 1..M : i \in 1..(M + N) /\ i <= M
      BY <1>2
  <2> QED BY <1>1, <2>1
<1>4. \A i \in 1..N : z[M + i] = b[i]
  <2>1. \A i \in 1..N : M + i \in 1..(M + N) /\ ~(M + i <= M) /\ (M + i) - M = i
      BY <1>2
  <2> QED BY <1>1, <2>1
<1> QED BY <1>1, <1>3, <1>4 DEF z, M, N

LEMMA ItemIs ==
    ASSUME NEW s \in Seq(Char)
    PROVE  /\ Item(s) \in Seq(Char)
           /\ Len(Item(s)) = Len(SizeLine("$", Len(s))) + Len(Body(s))
           /\ \A i \in 1..Len(SizeLine("$", Len(s))) : Item(s)[i] = SizeLine("$", Len(s))[i]
           /\ \A i \in 1..Len(Body(s)) :
                  Item(s)[Len(SizeLine("$", Len(s))) + i] = Body(s)[i]
<1> DEFINE l == SizeLine("$", Len(s))
           b == Body(s)
<1>1. l \in Seq(Char) /\ b \in Seq(Char)
    BY LenProperties, SizeLineIs, BodyIs
<1>2. Item(s) = l \o b
  <2>1. CRLF \in Seq(Char)
      BY DEF CRLF, Char, Control
  <2>2. Item(s) = (l \o s) \o CRLF /\ b = s \o CRLF
      BY DEF Item, Body
  <2> HIDE DEF l, b
  <2> QED BY <1>1, <2>1, <2>2, ConcatAssociative
<1> HIDE DEF l, b
<1>3. /\ l \o b \in Seq(Char) /\ Len(l \o b) = Len(l) + Len(b)
      /\ \A i \in 1..Len(l) : (l \o b)[i] = l[i]
      /\ \A i \in 1..Len(b) : (l \o b)[Len(l) + i] = b[i]
    BY <1>1, ConcatAt
<1> QED BY <1>2, <1>3 DEF l, b

CountLine(cmd)  == SizeLine("*", Len(cmd))
LengthLine(arg) == SizeLine("$", Len(arg))
Items(cmd)      == [i \in 1..Len(cmd) |-> Item(cmd[i])]

LEMMA CommandIs ==
    ASSUME NEW cmd \in Seq(Seq(Char))
    PROVE  /\ Items(cmd) \in Seq(Seq(Char)) /\ Len(Items(cmd)) = Len(cmd)
           /\ makeCommand(cmd) \in Seq(Char)
           /\ Len(makeCommand(cmd)) = Len(CountLine(cmd)) + Until(Items(cmd), Len(cmd))
           /\ \A i \in 1..Len(CountLine(cmd)) : makeCommand(cmd)[i] = CountLine(cmd)[i]
           /\ \A n \in 1..Len(cmd) : \A i \in 1..Len(Item(cmd[n])) :
                  /\ Len(CountLine(cmd)) + Until(Items(cmd), n - 1) + i \in 1..Len(makeCommand(cmd))
                  /\ makeCommand(cmd)[Len(CountLine(cmd)) + Until(Items(cmd), n - 1) + i]
                     = Item(cmd[n])[i]
<1> DEFINE h == CountLine(cmd)
           s == Items(cmd)
           j == Joined(s)
           N == Len(cmd)
           w == makeCommand(cmd)
<1>1. N \in Nat /\ \A i \in 1..N : Item(cmd[i]) \in Seq(Char)
    BY LenProperties, ElementOfSeq, ItemIs
<1>2. s \in Seq(Seq(Char)) /\ Len(s) = N /\ \A i \in 1..N : s[i] = Item(cmd[i])
    BY <1>1 DEF Items
<1>3. h \in Seq(Char)
    BY <1>1, SizeLineIs DEF CountLine
<1>4. w = h \o j
    BY DEF makeCommand, CountLine, Items, Joined
<1> HIDE DEF N, h, s, w
<1>5. j \in Seq(Char) /\ Len(j) = Until(s, N)
  <2>1. Prefix(s, N) = s
    <3>1. Prefix(s, Len(s)) = s
        BY <1>1, <1>2, PrefixIs
    <3> QED BY <1>2, <3>1
  <2>2. N \in 0..Len(s)
      BY <1>1, <1>2
  <2>3. Joined(Prefix(s, N)) \in Seq(Char)
      BY <1>2, <2>2, JoinedIs
  <2> QED BY <2>1, <2>3 DEF Until
<1>6. ASSUME NEW n \in 1..N, NEW i \in 1..Len(s[n])
      PROVE  Until(s, n - 1) + i \in 1..Len(j) /\ j[Until(s, n - 1) + i] = s[n][i]
    BY <1>2, JoinedAt
<1> HIDE DEF j
<1>7. /\ h \o j \in Seq(Char) /\ Len(h \o j) = Len(h) + Len(j)
      /\ \A i \in 1..Len(h) : (h \o j)[i] = h[i]
      /\ \A i \in 1..Len(j) : (h \o j)[Len(h) + i] = j[i]
    BY <1>3, <1>5, ConcatAt
<1>8. Len(h) \in Nat /\ Len(j) \in Nat
    BY <1>3, <1>5, LenProperties
<1>9. ASSUME NEW n \in 1..N, NEW i \in 1..Len(Item(cmd[n]))
      PROVE  /\ Len(h) + Until(s, n - 1) + i \in 1..Len(w)
             /\ w[Len(h) + Until(s, n - 1) + i] = Item(cmd[n])[i]
  <2> DEFINE u == Until(s, n - 1)
             k == u + i
  <2>1. s[n] = Item(cmd[n])
      BY <1>2
  <2>2. k \in 1..Len(j) /\ j[k] = s[n][i]
      BY <1>6, <2>1
  <2>3. u \in Nat
    <3>1. n - 1 \in 0..Len(s)
        BY <1>1, <1>2
    <3> QED BY <1>2, <3>1, UntilIs
  <2>4. i \in Nat
    <3>1. Len(Item(cmd[n])) \in Nat
        BY <1>1, LenProperties
    <3> QED BY <3>1
  <2> HIDE DEF u
  <2>5. Len(h) + u + i = Len(h) + k
      BY <1>8, <2>3, <2>4
  <2> HIDE DEF k
  <2>6. Len(h) + k \in 1..(Len(h) + Len(j))
      BY <1>8, <2>2
  <2>7. (h \o j)[Len(h) + k] = j[k]
      BY <1>7, <2>2
  <2> QED BY <1>4, <1>7, <2>1, <2>2, <2>5, <2>6, <2>7 DEF u
<1> QED BY <1>2, <1>4, <1>5, <1>7, <1>9 DEF N, h, s, w

\* What the server expects of a command of which it has n arguments, and where
\* that begins.
Expected == {"count", "size", "bytes"}
Due(cmd, e, n) ==
    IF e = "count" THEN CountLine(cmd)
    ELSE IF e = "size" THEN LengthLine(cmd[n + 1]) ELSE Body(cmd[n + 1])
DueAt(cmd, e, n) ==
    IF e = "count" THEN 0
    ELSE Len(CountLine(cmd)) + Until(Items(cmd), n)
         + (IF e = "size" THEN 0 ELSE Len(LengthLine(cmd[n + 1])))

LEMMA DueIs ==
    ASSUME NEW cmd \in Seq(Seq(Char)), NEW e \in Expected, NEW n \in 0..(Len(cmd) - 1)
    PROVE  /\ Due(cmd, e, n) \in Seq(Char) /\ Len(Due(cmd, e, n)) \in Nat
           /\ Len(Due(cmd, e, n)) > 0
           /\ DueAt(cmd, e, n) \in Nat
           /\ \A i \in 1..Len(Due(cmd, e, n)) :
                  /\ DueAt(cmd, e, n) + i \in 1..Len(makeCommand(cmd))
                  /\ makeCommand(cmd)[DueAt(cmd, e, n) + i] = Due(cmd, e, n)[i]
<1> DEFINE h == CountLine(cmd)
           a == cmd[n + 1]
           l == LengthLine(a)
           b == Body(a)
           u == Until(Items(cmd), n)
           w == makeCommand(cmd)
<1>1. /\ Len(cmd) \in Nat /\ n \in Nat /\ n + 1 \in 1..Len(cmd) /\ (n + 1) - 1 = n
      /\ n \in 0..Len(cmd) /\ a \in Seq(Char)
  <2>1. /\ Len(cmd) \in Nat /\ n \in Nat /\ n + 1 \in 1..Len(cmd) /\ (n + 1) - 1 = n
        /\ n \in 0..Len(cmd)
      BY LenProperties
  <2> QED BY <2>1, ElementOfSeq
<1>2. h \in Seq(Char) /\ Len(h) \in Nat /\ Len(h) > 3
  <2>1. h \in Seq(Char) /\ Len(h) > 3
      BY <1>1, SizeLineIs DEF CountLine
  <2> QED BY <2>1, LenProperties
<1>3. l \in Seq(Char) /\ Len(l) \in Nat /\ Len(l) > 3
  <2>1. Len(a) \in Nat
      BY <1>1, LenProperties
  <2>2. l \in Seq(Char) /\ Len(l) > 3
      BY <2>1, SizeLineIs DEF LengthLine
  <2> QED BY <2>2, LenProperties
<1>4. b \in Seq(Char) /\ Len(b) \in Nat /\ Len(b) > 0
  <2>1. Len(a) \in Nat
      BY <1>1, LenProperties
  <2>2. b \in Seq(Char) /\ Len(b) = Len(a) + 2
      BY <1>1, BodyIs
  <2> HIDE DEF a, b
  <2> QED BY <2>1, <2>2
<1>5. /\ Items(cmd) \in Seq(Seq(Char)) /\ Len(Items(cmd)) = Len(cmd)
      /\ w \in Seq(Char) /\ Len(w) = Len(h) + Until(Items(cmd), Len(cmd))
      /\ \A i \in 1..Len(h) : w[i] = h[i]
    BY CommandIs
<1>6. \A i \in 1..Len(Item(a)) : Len(h) + u + i \in 1..Len(w) /\ w[Len(h) + u + i] = Item(a)[i]
  <2>1. \A i \in 1..Len(Item(cmd[n + 1])) :
                  /\ Len(CountLine(cmd)) + Until(Items(cmd), (n + 1) - 1) + i \in 1..Len(makeCommand(cmd))
                  /\ makeCommand(cmd)[Len(CountLine(cmd)) + Until(Items(cmd), (n + 1) - 1) + i]
                     = Item(cmd[n + 1])[i]
    <3> HIDE DEF a, h, l, b, u, w
    <3> QED BY <1>1, CommandIs
  <2> QED BY <1>1, <2>1
<1>7. u \in Nat /\ Until(Items(cmd), Len(cmd)) \in Nat
  <2>1. Len(cmd) \in 0..Len(cmd)
      BY <1>1
  <2> HIDE DEF u
  <2> QED BY <1>1, <1>5, <2>1, UntilIs DEF u
<1>8. /\ Len(Item(a)) = Len(l) + Len(b)
      /\ \A i \in 1..Len(l) : Item(a)[i] = l[i]
      /\ \A i \in 1..Len(b) : Item(a)[Len(l) + i] = b[i]
    BY <1>1, ItemIs DEF LengthLine
<1> HIDE DEF a, h, l, b, u, w
<1>9. CASE e = "count"
  <2>1. Due(cmd, e, n) = h /\ DueAt(cmd, e, n) = 0
      BY <1>9 DEF Due, DueAt, h
  <2>2. \A i \in 1..Len(h) : 0 + i \in 1..Len(w) /\ 0 + i = i
      BY <1>2, <1>5, <1>7
  <2> QED BY <1>2, <1>5, <2>1, <2>2 DEF w
<1>10. CASE e = "size"
  <2>1. Due(cmd, e, n) = l /\ DueAt(cmd, e, n) = Len(h) + u + 0
      BY <1>10 DEF Due, DueAt, h, l, u, a
  <2>2. Len(h) + u + 0 = Len(h) + u /\ Len(h) + u \in Nat
      BY <1>2, <1>7
  <2>3. \A i \in 1..Len(l) : i \in 1..Len(Item(a))
      BY <1>3, <1>4, <1>8
  <2>4. \A i \in 1..Len(l) : Len(h) + u + i \in 1..Len(w) /\ w[Len(h) + u + i] = l[i]
      BY <1>6, <1>8, <2>3
  <2> QED BY <1>3, <2>1, <2>2, <2>4 DEF w
<1>11. CASE e = "bytes"
  <2>1. Due(cmd, e, n) = b /\ DueAt(cmd, e, n) = Len(h) + u + Len(l)
      BY <1>11 DEF Due, DueAt, h, l, u, a, b
  <2>2. Len(h) + u + Len(l) \in Nat
      BY <1>2, <1>3, <1>7
  <2>3. \A i \in 1..Len(b) : /\ Len(l) + i \in 1..Len(Item(a))
                             /\ Len(h) + u + (Len(l) + i) = Len(h) + u + Len(l) + i
      BY <1>2, <1>3, <1>4, <1>7, <1>8
  <2>4. \A i \in 1..Len(b) : Len(h) + u + Len(l) + i \in 1..Len(w) /\ w[Len(h) + u + Len(l) + i] = b[i]
    <3>1. ASSUME NEW i \in 1..Len(b)
          PROVE  Len(h) + u + Len(l) + i \in 1..Len(w) /\ w[Len(h) + u + Len(l) + i] = b[i]
      <4> DEFINE k == Len(l) + i
      <4>1. k \in 1..Len(Item(a)) /\ Len(h) + u + k = Len(h) + u + Len(l) + i
          BY <2>3
      <4>2. Item(a)[k] = b[i]
          BY <1>8
      <4> HIDE DEF k
      <4>3. Len(h) + u + k \in 1..Len(w) /\ w[Len(h) + u + k] = Item(a)[k]
          BY <1>6, <4>1
      <4> QED BY <4>1, <4>2, <4>3
    <3> QED BY <3>1
  <2> QED BY <1>4, <2>1, <2>2, <2>4 DEF w
<1> QED BY <1>9, <1>10, <1>11 DEF Expected

\* What the server expects next begins where what it expected ends.
LEMMA DueNext ==
    ASSUME NEW cmd \in Seq(Seq(Char)), NEW n \in 0..(Len(cmd) - 1)
    PROVE  /\ DueAt(cmd, "count", n) = 0
           /\ DueAt(cmd, "size", 0) = Len(Due(cmd, "count", n))
           /\ DueAt(cmd, "bytes", n) = DueAt(cmd, "size", n) + Len(Due(cmd, "size", n))
           /\ n + 1 < Len(cmd) => DueAt(cmd, "size", n + 1)
                                  = DueAt(cmd, "bytes", n) + Len(Due(cmd, "bytes", n))
           /\ n + 1 = Len(cmd) => Len(makeCommand(cmd))
                                  = DueAt(cmd, "bytes", n) + Len(Due(cmd, "bytes", n))
<1> DEFINE h == Len(CountLine(cmd))
           a == cmd[n + 1]
           l == Len(LengthLine(a))
           b == Len(Body(a))
           u == Until(Items(cmd), n)
           v == Until(Items(cmd), n + 1)
<1>1. /\ Len(cmd) \in Nat /\ n \in Nat /\ n + 1 \in 1..Len(cmd) /\ (n + 1) - 1 = n
      /\ n \in 0..Len(cmd) /\ n + 1 \in 0..Len(cmd) /\ a \in Seq(Char)
  <2>1. /\ Len(cmd) \in Nat /\ n \in Nat /\ n + 1 \in 1..Len(cmd) /\ (n + 1) - 1 = n
        /\ n \in 0..Len(cmd) /\ n + 1 \in 0..Len(cmd)
      BY LenProperties
  <2> QED BY <2>1, ElementOfSeq
<1>2. /\ Items(cmd) \in Seq(Seq(Char)) /\ Len(Items(cmd)) = Len(cmd)
      /\ Len(makeCommand(cmd)) = h + Until(Items(cmd), Len(cmd))
    BY CommandIs
<1>3. h \in Nat /\ l \in Nat /\ b \in Nat
  <2>1. CountLine(cmd) \in Seq(Char)
      BY <1>1, SizeLineIs DEF CountLine
  <2>2. Len(a) \in Nat
      BY <1>1, LenProperties
  <2>3. LengthLine(a) \in Seq(Char)
      BY <2>2, SizeLineIs DEF LengthLine
  <2>4. Body(a) \in Seq(Char)
      BY <1>1, BodyIs
  <2> HIDE DEF a
  <2> QED BY <2>1, <2>3, <2>4, LenProperties
<1>4. u \in Nat /\ v = u + (l + b) /\ Until(Items(cmd), 0) = 0
  <2> DEFINE s == Items(cmd)
  <2>1. /\ Until(s, 0) = 0 /\ \A k \in 0..Len(s) : Until(s, k) \in Nat
        /\ \A k \in 1..Len(s) : Until(s, k) = Until(s, k - 1) + Len(s[k])
      BY <1>2, UntilIs
  <2>2. s[n + 1] = Item(a)
      BY <1>1 DEF Items
  <2>3. Len(Item(a)) = l + b
      BY <1>1, ItemIs DEF LengthLine
  <2> HIDE DEF a, l, b, s
  <2> QED BY <1>1, <1>2, <2>1, <2>2, <2>3 DEF s
<1>5. /\ DueAt(cmd, "count", n) = 0 /\ DueAt(cmd, "size", 0) = h + Until(Items(cmd), 0) + 0
      /\ DueAt(cmd, "size", n) = h + u + 0 /\ DueAt(cmd, "bytes", n) = h + u + l
      /\ DueAt(cmd, "size", n + 1) = h + v + 0
    BY DEF DueAt
<1>6. /\ Len(Due(cmd, "count", n)) = h /\ Len(Due(cmd, "size", n)) = l
      /\ Len(Due(cmd, "bytes", n)) = b
    BY DEF Due
<1> HIDE DEF h, a, l, b, u, v
<1>7. n + 1 = Len(cmd) => Until(Items(cmd), Len(cmd)) = v
    BY DEF v
<1> QED BY <1>2, <1>3, <1>4, <1>5, <1>6, <1>7
-----------------------------------------------------------------------------
(* The server: it is somewhere in what it expects of a command, and what it *)
(* has of it is what came of that.                                          *)

Wires(cs) == [k \in 1..Len(cs) |-> makeCommand(cs[k])]

\* It has the byte before place o of a command.
InCommand(cmd, o, e, t, z, a, l) ==
    \E n \in 0..(Len(cmd) - 1) : \E m \in 0..(Len(Due(cmd, e, n)) - 1) :
        /\ e \in Expected
        /\ a = Prefix(cmd, n) /\ t = Prefix(Due(cmd, e, n), m) /\ o = DueAt(cmd, e, n) + m
        /\ e = "count" => n = 0
        /\ e # "count" => l = Len(cmd) - n
        /\ e = "bytes" => z = Len(cmd[n + 1])

InStream(cs, k, o, e, t, z, a, l) ==
    IF k = Len(cs) THEN o = Until(Wires(cs), k) /\ e = "count" /\ a = <<>> /\ t = <<>>
    ELSE InCommand(cs[k + 1], o - Until(Wires(cs), k), e, t, z, a, l)

ServerInv ==
    /\ commands \in Seq(Commands) /\ taken \in Nat /\ refused = FALSE
    /\ \E k \in 0..Len(commands) :
           /\ read = Prefix(commands, k)
           /\ InStream(commands, k, taken, expects, token, size, args, left)

LEMMA WiresAre ==
    ASSUME NEW cs \in Seq(Commands)
    PROVE  /\ Wires(cs) \in Seq(Seq(Char)) /\ Len(Wires(cs)) = Len(cs)
           /\ \A k \in 1..Len(cs) : /\ Wires(cs)[k] = makeCommand(cs[k])
                                    /\ cs[k] \in Seq(Seq(Char)) /\ Len(cs[k]) \in Nat \ {0}
           /\ \A k \in 0..Len(cs) : Until(Wires(cs), k) \in Nat
           /\ \A k \in 0..(Len(cs) - 1) :
                  Until(Wires(cs), k + 1) = Until(Wires(cs), k) + Len(makeCommand(cs[k + 1]))
<1> DEFINE N == Len(cs)
           w == Wires(cs)
<1>1. N \in Nat
    BY LenProperties
<1>2. ASSUME NEW k \in 1..N PROVE cs[k] \in Seq(Seq(Char)) /\ Len(cs[k]) \in Nat \ {0}
  <2>1. cs[k] \in Seq(Seq(Char)) /\ cs[k] # <<>>
      BY CommandsAssumption, ElementOfSeq
  <2> QED BY <2>1, EmptySeq, LenProperties
<1>3. \A k \in 1..N : makeCommand(cs[k]) \in Seq(Char)
    BY <1>2, CommandIs
<1>4. w \in Seq(Seq(Char)) /\ Len(w) = N /\ \A k \in 1..N : w[k] = makeCommand(cs[k])
    BY <1>1, <1>3 DEF Wires
<1> HIDE DEF w, N
<1>5. \A k \in 0..N : Until(w, k) \in Nat
    BY <1>4, UntilIs
<1>6. ASSUME NEW k \in 0..(N - 1) PROVE Until(w, k + 1) = Until(w, k) + Len(makeCommand(cs[k + 1]))
  <2>1. k + 1 \in 1..N /\ (k + 1) - 1 = k
      BY <1>1
  <2> QED BY <1>4, <2>1, UntilIs
<1> QED BY <1>2, <1>4, <1>5, <1>6 DEF w, N

LEMMA StreamIs ==
    ASSUME commands \in Seq(Commands)
    PROVE  /\ Stream = Joined(Wires(commands))
           /\ Len(Stream) = Until(Wires(commands), Len(commands))
           /\ \A k \in 0..Len(commands) : EndOf(k) = Until(Wires(commands), k)
<1> DEFINE N == Len(commands)
           w == Wires(commands)
<1>1. Stream = Joined(w)
    BY DEF Stream, Joined, Wires
<1>2. N \in Nat /\ w \in Seq(Seq(Char)) /\ Len(w) = N
    BY WiresAre, LenProperties
<1>3. ASSUME NEW k \in 0..N PROVE EndOf(k) = Until(w, k)
  <2> DEFINE p == [i \in 1..k |-> makeCommand(commands[i])]
  <2>1. Prefix(w, k) = p
    <3>1. \A i \in 1..k : i \in 1..N
        BY <1>2
    <3>2. \A i \in 1..k : w[i] = makeCommand(commands[i])
        BY <3>1 DEF Wires
    <3> HIDE DEF w
    <3> QED BY <3>2 DEF Prefix
  <2> QED BY <2>1 DEF EndOf, Until, Joined
<1>4. Prefix(w, N) = w
  <2> HIDE DEF w
  <2>1. Prefix(w, Len(w)) = w
      BY <1>2, PrefixIs
  <2> QED BY <1>2, <2>1
<1>5. Len(Stream) = Until(w, N)
    BY <1>1, <1>4 DEF Until
<1> QED BY <1>1, <1>3, <1>5

\* o is the place of the m-th byte of what the server expects of a command.
PlaceOfByte(cs, k, e, n, m, o) ==
    /\ cs \in Seq(Commands) /\ k \in 0..(Len(cs) - 1) /\ e \in Expected
    /\ n \in 0..(Len(cs[k + 1]) - 1) /\ m \in 0..(Len(Due(cs[k + 1], e, n)) - 1)
    /\ o \in Nat /\ o - Until(Wires(cs), k) = DueAt(cs[k + 1], e, n) + m

\* The next byte is the next of what the server expects.
LEMMA NextByte ==
    ASSUME NEW cs, NEW k, NEW e, NEW n, NEW m, NEW o, PlaceOfByte(cs, k, e, n, m, o)
    PROVE  /\ Joined(Wires(cs))[o + 1] = Due(cs[k + 1], e, n)[m + 1]
           /\ Append(Prefix(Due(cs[k + 1], e, n), m), Joined(Wires(cs))[o + 1])
              = Prefix(Due(cs[k + 1], e, n), m + 1)
           /\ o < Until(Wires(cs), k + 1)
<1>0. /\ cs \in Seq(Commands) /\ k \in 0..(Len(cs) - 1) /\ e \in Expected
      /\ n \in 0..(Len(cs[k + 1]) - 1) /\ m \in 0..(Len(Due(cs[k + 1], e, n)) - 1)
      /\ o \in Nat /\ o - Until(Wires(cs), k) = DueAt(cs[k + 1], e, n) + m
    BY DEF PlaceOfByte
<1> DEFINE cmd == cs[k + 1]
           d == Due(cmd, e, n)
           w == Wires(cs)
           u == Until(w, k)
           b == DueAt(cmd, e, n)
           i == b + (m + 1)
<1>1. /\ Len(cs) \in Nat /\ k \in Nat /\ k + 1 \in 1..Len(cs) /\ (k + 1) - 1 = k /\ k \in 0..Len(cs)
    BY <1>0, LenProperties
<1>2. /\ w \in Seq(Seq(Char)) /\ Len(w) = Len(cs) /\ w[k + 1] = makeCommand(cmd)
      /\ cmd \in Seq(Seq(Char)) /\ u \in Nat
      /\ Until(w, k + 1) = u + Len(makeCommand(cmd))
    BY <1>0, <1>1, WiresAre
<1> HIDE DEF cmd, w, u
<1>3. /\ d \in Seq(Char) /\ Len(d) \in Nat /\ b \in Nat
      /\ \A j \in 1..Len(d) : b + j \in 1..Len(makeCommand(cmd)) /\ makeCommand(cmd)[b + j] = d[j]
    BY <1>0, <1>2, DueIs DEF cmd
<1> HIDE DEF b, d
<1>4. m \in Nat /\ m + 1 \in 1..Len(d) /\ m \in 0..Len(d) /\ m < Len(d)
    BY <1>0, <1>3 DEF d, cmd
<1>5. i \in 1..Len(w[k + 1]) /\ w[k + 1][i] = d[m + 1]
    BY <1>2, <1>3, <1>4
<1>6. o + 1 = u + i
  <2>1. o - u = b + m
      BY <1>0 DEF u, w, b, cmd
  <2> QED BY <1>0, <1>2, <1>3, <1>4, <2>1
<1> HIDE DEF i
<1>7. Joined(w)[u + i] = w[k + 1][i]
  <2>1. Joined(w)[Until(w, (k + 1) - 1) + i] = w[k + 1][i]
    <3> DEFINE p == k + 1
    <3>1. p \in 1..Len(w) /\ i \in 1..Len(w[p]) /\ w \in Seq(Seq(Char))
        BY <1>1, <1>2, <1>5
    <3> HIDE DEF p
    <3>2. Joined(w)[Until(w, p - 1) + i] = w[p][i]
        BY <3>1, JoinedAt
    <3> QED BY <3>2 DEF p
  <2> QED BY <1>1, <2>1 DEF u
<1>8. Append(Prefix(d, m), d[m + 1]) = Prefix(d, m + 1)
    BY <1>3, <1>4, PrefixIs
<1>9. o < Until(w, k + 1)
  <2>1. i <= Len(makeCommand(cmd)) /\ i \in Nat
    <3>1. Len(makeCommand(cmd)) \in Nat
        BY <1>2, CommandIs, LenProperties
    <3> QED BY <1>2, <1>5, <3>1
  <2>2. Len(makeCommand(cmd)) \in Nat
      BY <1>2, CommandIs, LenProperties
  <2> QED BY <1>0, <1>2, <1>6, <2>1, <2>2
<1> QED BY <1>5, <1>6, <1>7, <1>8, <1>9 DEF d, w, cmd

\* Where a command begins, or the stream is at its end.
LEMMA CommandBegins ==
    ASSUME NEW cs \in Seq(Commands), NEW k \in 0..Len(cs), NEW z, NEW l
    PROVE  InStream(cs, k, Until(Wires(cs), k), "count", <<>>, z, <<>>, l)
<1>1. CASE k = Len(cs)
    BY <1>1 DEF InStream
<1>2. CASE k # Len(cs)
  <2> DEFINE cmd == cs[k + 1]
             u == Until(Wires(cs), k)
  <2>1. Len(cs) \in Nat /\ k + 1 \in 1..Len(cs)
      BY <1>2, LenProperties
  <2>2. cmd \in Seq(Seq(Char)) /\ Len(cmd) \in Nat \ {0} /\ u \in Nat
      BY <2>1, WiresAre
  <2> HIDE DEF cmd, u
  <2>3. "count" \in Expected /\ 0 \in 0..(Len(cmd) - 1)
      BY <2>2 DEF Expected
  <2>4. Len(Due(cmd, "count", 0)) \in Nat /\ Len(Due(cmd, "count", 0)) > 0
      BY <2>2, <2>3, DueIs
  <2>5. 0 \in 0..(Len(Due(cmd, "count", 0)) - 1)
      BY <2>4
  <2>6. u - u = DueAt(cmd, "count", 0) + 0
      BY <2>2 DEF DueAt
  <2>7. Prefix(cmd, 0) = <<>> /\ Prefix(Due(cmd, "count", 0), 0) = <<>>
      BY DEF Prefix
  <2>8. InCommand(cmd, u - u, "count", <<>>, z, <<>>, l)
      BY <2>3, <2>5, <2>6, <2>7 DEF InCommand
  <2> QED BY <1>2, <2>8 DEF InStream, cmd, u
<1> QED BY <1>1, <1>2

LEMMA ServerStarts == CommandsInit => ServerInv
<1> SUFFICES ASSUME CommandsInit PROVE ServerInv
    OBVIOUS
<1>1. PICK N \in 1..MaxCommands : commands \in [1..N -> Commands]
    BY DEF CommandsInit
<1>2. N \in Nat /\ N > 0
    BY <1>1, MaxCommandsAssumption
<1>3. commands \in Seq(Commands) /\ Len(commands) = N
    BY <1>1, <1>2
<1>4. /\ taken = 0 /\ expects = "count" /\ token = <<>> /\ args = <<>> /\ read = <<>>
      /\ refused = FALSE
    BY DEF CommandsInit, ServerInit
<1>5. read = Prefix(commands, 0) /\ 0 \in 0..Len(commands)
    BY <1>2, <1>3, <1>4 DEF Prefix
<1>6. Until(Wires(commands), 0) = 0
    BY <1>3, WiresAre, UntilIs
<1>7. InStream(commands, 0, 0, "count", <<>>, size, <<>>, left)
    BY <1>3, <1>5, <1>6, CommandBegins
<1> QED BY <1>3, <1>4, <1>5, <1>7 DEF ServerInv

\* The server has all of what it expected, and begins with what comes next.
LEMMA NextBegins ==
    ASSUME NEW cmd \in Seq(Seq(Char)), NEW e \in Expected, NEW n \in 0..(Len(cmd) - 1), NEW z, NEW l,
           e = "count" => n = 0, e # "count" => l = Len(cmd) - n, e = "bytes" => z = Len(cmd[n + 1])
    PROVE  InCommand(cmd, DueAt(cmd, e, n), e, <<>>, z, Prefix(cmd, n), l)
<1> DEFINE d == Due(cmd, e, n)
           b == DueAt(cmd, e, n)
<1>1. Len(d) \in Nat /\ Len(d) > 0 /\ b \in Nat
    BY DueIs
<1> HIDE DEF d, b
<1>2. 0 \in 0..(Len(d) - 1) /\ b = b + 0
    BY <1>1
<1>3. Prefix(d, 0) = <<>>
    BY DEF Prefix
<1> QED BY <1>2, <1>3 DEF InCommand, d, b

LEMMA ServerNext == ServerInv /\ [ReadByte]_requests => ServerInv'
<1> SUFFICES ASSUME ServerInv, [ReadByte]_requests PROVE ServerInv'
    OBVIOUS
<1>1. CASE UNCHANGED requests
    BY <1>1 DEF requests, server, ServerInv
<1>2. CASE ReadByte
  <2> DEFINE cs == commands
             N == Len(commands)
  <2>1. cs \in Seq(Commands) /\ taken \in Nat /\ refused = FALSE /\ N \in Nat
      BY LenProperties DEF ServerInv
  <2>2. PICK k \in 0..N :
            /\ read = Prefix(cs, k)
            /\ InStream(cs, k, taken, expects, token, size, args, left)
      BY DEF ServerInv
  <2>3. taken < Len(Stream) /\ taken' = taken + 1 /\ commands' = commands
      BY <1>2 DEF ReadByte
  <2>4. Stream = Joined(Wires(cs)) /\ Len(Stream) = Until(Wires(cs), N)
      BY <2>1, StreamIs
  <2>5. k # N
    <3>1. SUFFICES ASSUME k = N PROVE FALSE
        OBVIOUS
    <3>2. taken = Until(Wires(cs), N)
        BY <2>2, <3>1 DEF InStream
    <3> QED BY <2>1, <2>3, <2>4, <3>2
  <2> DEFINE cmd == cs[k + 1]
             u == Until(Wires(cs), k)
             e == expects
  <2>6. k \in Nat /\ k + 1 \in 1..N /\ k \in 0..(N - 1) /\ k + 1 \in 0..N
      BY <2>1, <2>5
  <2>7. /\ cmd \in Seq(Seq(Char)) /\ Len(cmd) \in Nat \ {0} /\ u \in Nat
        /\ Until(Wires(cs), k + 1) = u + Len(makeCommand(cmd))
      BY <2>1, <2>6, WiresAre
  <2> DEFINE Here(n, m) ==
          /\ e \in Expected
          /\ args = Prefix(cmd, n) /\ token = Prefix(Due(cmd, e, n), m)
          /\ taken - u = DueAt(cmd, e, n) + m
          /\ e = "count" => n = 0
          /\ e # "count" => left = Len(cmd) - n
          /\ e = "bytes" => size = Len(cmd[n + 1])
  <2>a. PICK n \in 0..(Len(cmd) - 1) : \E m \in 0..(Len(Due(cmd, e, n)) - 1) : Here(n, m)
      BY <2>2, <2>5 DEF InStream, InCommand
  <2>8. PICK m \in 0..(Len(Due(cmd, e, n)) - 1) : Here(n, m)
      BY <2>a
  <2> DEFINE d == Due(cmd, e, n)
             b == DueAt(cmd, e, n)
             t == Append(token, Stream[taken + 1])
  <2>9. /\ n \in Nat /\ n \in 0..Len(cmd) /\ n + 1 \in 1..Len(cmd) /\ n < Len(cmd)
      BY <2>7
  <2>10. d \in Seq(Char) /\ Len(d) \in Nat /\ Len(d) > 0 /\ b \in Nat
      BY <2>7, <2>8, DueIs
  <2>11. t = Prefix(d, m + 1)
    <3>1. /\ cs \in Seq(Commands) /\ k \in 0..(Len(cs) - 1) /\ e \in Expected /\ taken \in Nat
          /\ taken - Until(Wires(cs), k) = DueAt(cs[k + 1], e, n) + m
        BY <2>1, <2>6, <2>8
    <3>2. n \in 0..(Len(cs[k + 1]) - 1) /\ m \in 0..(Len(Due(cs[k + 1], e, n)) - 1)
        BY <2>8
    <3>3. token = Prefix(d, m) /\ t = Append(token, Joined(Wires(cs))[taken + 1])
        BY <2>4, <2>8
    <3> HIDE DEF cs, e, t
    <3>4. PlaceOfByte(cs, k, e, n, m, taken)
        BY <3>1, <3>2 DEF PlaceOfByte
    <3>5. Append(Prefix(Due(cs[k + 1], e, n), m), Joined(Wires(cs))[taken + 1])
          = Prefix(Due(cs[k + 1], e, n), m + 1)
        BY <3>4, NextByte
    <3> QED BY <3>3, <3>5
  <2>12. (taken + 1) - u = b + (m + 1)
    <3> HIDE DEF b, u, N
    <3>1. m \in Nat /\ taken - u = b + m
      <4>1. taken - u = b + m
          BY <2>8 DEF b, u
      <4>2. m \in Nat
          BY <2>10
      <4> QED BY <4>1, <4>2
    <3> QED BY <2>1, <2>7, <2>10, <3>1
  <2> HIDE DEF b, u, N, cmd, d, t, e
  <2>13. CASE m + 1 < Len(d)
    <3>1. Len(t) = m + 1
        BY <2>10, <2>11, <2>13, PrefixIs
    <3>2. ~Whole(t)
      <4>1. CASE e = "bytes"
        <5>1. d = Body(cmd[n + 1]) /\ size = Len(cmd[n + 1])
            BY <2>8, <4>1 DEF d, Due, e
        <5>2. cmd[n + 1] \in Seq(Char)
            BY <2>7, <2>9, ElementOfSeq
        <5>3. Len(d) = size + 2
            BY <5>1, <5>2, BodyIs
        <5>4. Len(t) # size + 2
            BY <2>10, <2>13, <3>1, <5>3
        <5> QED BY <4>1, <5>4 DEF Whole, e
      <4>2. CASE e # "bytes"
        <5>1. PICK mark \in {"*", "$"}, j \in Nat : d = SizeLine(mark, j)
          <6>1. CASE e = "count"
            <7>1. d = SizeLine("*", Len(cmd))
                BY <6>1 DEF d, Due, CountLine
            <7> QED BY <2>7, <7>1
          <6>2. CASE e = "size"
            <7>1. d = SizeLine("$", Len(cmd[n + 1]))
                BY <6>2 DEF d, Due, LengthLine
            <7>2. Len(cmd[n + 1]) \in Nat
                BY <2>7, <2>9, ElementOfSeq, LenProperties
            <7> QED BY <7>1, <7>2
          <6> QED BY <2>8, <4>2, <6>1, <6>2 DEF Expected
        <5>2. m + 1 \in 1..(Len(d) - 1)
            BY <2>10, <2>13
        <5>3. ~Ends(t)
            BY <2>11, <5>1, <5>2, SizeLineIs
        <5> QED BY <4>2, <5>3 DEF Whole, e
      <4> QED BY <4>1, <4>2
    <3>3. More(t)
        BY <1>2, <3>2 DEF ReadByte, t
    <3>4. /\ token' = t /\ expects' = e /\ size' = size /\ args' = args /\ left' = left
          /\ read' = read /\ refused' = refused
        BY <3>3 DEF More, e
    <3>5. InCommand(cmd, (taken + 1) - u, e, t, size, args, left)
      <4>1. m + 1 \in 0..(Len(Due(cmd, e, n)) - 1)
          BY <2>10, <2>13 DEF d
      <4> QED BY <2>8, <2>11, <2>12, <4>1 DEF InCommand, d, b
    <3>6. InStream(cs, k, taken', expects', token', size', args', left')
        BY <2>3, <2>5, <3>4, <3>5 DEF InStream, u, cmd, N
    <3> QED BY <2>1, <2>2, <2>3, <3>4, <3>6 DEF ServerInv, N
  <2>14. CASE m + 1 = Len(d)
    <3> DEFINE a == cmd[n + 1]
    <3>1. t = d /\ a \in Seq(Char) /\ Len(a) \in Nat
      <4>1. Prefix(d, Len(d)) = d
          BY <2>10, PrefixIs
      <4>2. a \in Seq(Char)
          BY <2>7, <2>9, ElementOfSeq
      <4> QED BY <2>11, <2>14, <4>1, <4>2, LenProperties
    <3>2. (taken + 1) - u = b + Len(d)
        BY <2>12, <2>14
    <3> HIDE DEF a
    <3>3. CASE e = "count"
      <4>1. d = SizeLine("*", Len(cmd)) /\ n = 0
          BY <2>8, <3>3 DEF d, Due, CountLine
      <4>2. Ends(t) /\ NumberIn(t, "*") = Len(cmd) /\ ~(NumberIn(t, "*") < 1)
        <5>1. Ends(d) /\ NumberIn(d, "*") = Len(cmd)
            BY <2>7, <4>1, SizeLineIs
        <5> QED BY <2>7, <3>1, <5>1
      <4>3. ReadCount(t)
          BY <1>2, <3>3, <4>2 DEF ReadByte, Whole, e, t
      <4>4. /\ expects' = "size" /\ token' = <<>> /\ left' = Len(cmd)
            /\ size' = size /\ args' = args /\ read' = read /\ refused' = refused
          BY <4>2, <4>3 DEF ReadCount
      <4>5. (taken + 1) - u = DueAt(cmd, "size", 0)
        <5>1. b = 0 /\ DueAt(cmd, "size", 0) = Len(d)
            BY <2>7, <3>3, DueNext DEF b, d
        <5> QED BY <2>10, <3>2, <5>1
      <4>6. InCommand(cmd, DueAt(cmd, "size", 0), "size", <<>>, size, Prefix(cmd, 0), Len(cmd))
        <5>1. "size" \in Expected /\ 0 \in 0..(Len(cmd) - 1) /\ Len(cmd) = Len(cmd) - 0
            BY <2>7 DEF Expected
        <5> QED BY <2>7, <5>1, NextBegins
      <4>7. args = Prefix(cmd, 0)
          BY <2>8, <4>1
      <4>8. InStream(cs, k, taken', expects', token', size', args', left')
          BY <2>3, <2>5, <4>4, <4>5, <4>6, <4>7 DEF InStream, u, cmd, N
      <4> QED BY <2>1, <2>2, <2>3, <4>4, <4>8 DEF ServerInv, N
    <3>4. CASE e = "size"
      <4>1. d = SizeLine("$", Len(a)) /\ left = Len(cmd) - n
          BY <2>8, <3>4 DEF d, Due, LengthLine, a
      <4>2. Ends(t) /\ NumberIn(t, "$") = Len(a) /\ ~(NumberIn(t, "$") < 0)
        <5>1. Ends(d) /\ NumberIn(d, "$") = Len(a)
            BY <3>1, <4>1, SizeLineIs
        <5> QED BY <3>1, <5>1
      <4>3. ReadSize(t)
          BY <1>2, <3>4, <4>2 DEF ReadByte, Whole, e, t
      <4>4. /\ expects' = "bytes" /\ token' = <<>> /\ size' = Len(a)
            /\ left' = left /\ args' = args /\ read' = read /\ refused' = refused
          BY <4>2, <4>3 DEF ReadSize
      <4>5. (taken + 1) - u = DueAt(cmd, "bytes", n)
        <5>1. DueAt(cmd, "bytes", n) = b + Len(d)
            BY <2>7, <3>4, DueNext DEF b, d
        <5> QED BY <3>2, <5>1
      <4>6. InCommand(cmd, DueAt(cmd, "bytes", n), "bytes", <<>>, Len(a), Prefix(cmd, n), left)
        <5>1. "bytes" \in Expected
            BY DEF Expected
        <5> QED BY <2>7, <4>1, <5>1, NextBegins DEF a
      <4>7. InStream(cs, k, taken', expects', token', size', args', left')
          BY <2>3, <2>5, <2>8, <4>4, <4>5, <4>6 DEF InStream, u, cmd, N
      <4> QED BY <2>1, <2>2, <2>3, <4>4, <4>7 DEF ServerInv, N
    <3>5. CASE e = "bytes"
      <4>1. d = Body(a) /\ left = Len(cmd) - n /\ size = Len(a)
          BY <2>8, <3>5 DEF d, Due, a
      <4>2. Ends(t) /\ Len(t) = size + 2 /\ SubSeq(t, 1, size) = a
          BY <3>1, <4>1, BodyIs
      <4>3. ReadArgument(t)
          BY <1>2, <3>5, <4>2 DEF ReadByte, Whole, e, t
      <4>4. Append(args, a) = Prefix(cmd, n + 1)
        <5>1. args = Prefix(cmd, n)
            BY <2>8
        <5> QED BY <2>7, <2>9, <5>1, PrefixIs DEF a
      <4>5. CASE n + 1 = Len(cmd)
        <5>1. left = 1 /\ Append(args, a) = cmd
          <6>1. Prefix(cmd, Len(cmd)) = cmd
              BY <2>7, <2>9, PrefixIs
          <6> QED BY <2>7, <2>9, <4>1, <4>4, <4>5, <6>1
        <5>2. /\ expects' = "count" /\ token' = <<>> /\ args' = <<>>
              /\ read' = Append(read, cmd) /\ size' = size /\ refused' = refused
            BY <4>2, <4>3, <5>1 DEF ReadArgument
        <5>3. taken + 1 = Until(Wires(cs), k + 1)
          <6>1. Len(makeCommand(cmd)) = b + Len(d)
              BY <2>7, <3>5, <4>5, DueNext DEF b, d
          <6>2. b + Len(d) \in Nat
              BY <2>10
          <6> QED BY <2>1, <2>7, <3>2, <6>1, <6>2
        <5>4. InStream(cs, k + 1, taken', expects', token', size', args', left')
            BY <2>1, <2>3, <2>6, <5>2, <5>3, CommandBegins DEF N
        <5>5. read' = Prefix(cs, k + 1)
          <6>1. k \in 0..Len(cs) /\ k < Len(cs)
              BY <2>1, <2>6 DEF N
          <6> QED BY <2>1, <2>2, <5>2, <6>1, PrefixIs DEF cmd
        <5> QED BY <2>1, <2>3, <2>6, <5>2, <5>4, <5>5 DEF ServerInv, N
      <4>6. CASE n + 1 # Len(cmd)
        <5>1. left # 1 /\ n + 1 \in 0..(Len(cmd) - 1) /\ n + 1 < Len(cmd) /\ left - 1 = Len(cmd) - (n + 1)
            BY <2>7, <2>9, <4>1, <4>6
        <5>2. /\ expects' = "size" /\ token' = <<>> /\ args' = Append(args, a)
              /\ left' = left - 1 /\ read' = read /\ size' = size /\ refused' = refused
            BY <4>2, <4>3, <5>1 DEF ReadArgument
        <5>3. (taken + 1) - u = DueAt(cmd, "size", n + 1)
          <6>1. DueAt(cmd, "size", n + 1) = b + Len(d)
              BY <2>7, <3>5, <5>1, DueNext DEF b, d
          <6> QED BY <3>2, <6>1
        <5>4. InCommand(cmd, DueAt(cmd, "size", n + 1), "size", <<>>, size, Prefix(cmd, n + 1), left - 1)
          <6>1. "size" \in Expected
              BY DEF Expected
          <6> QED BY <2>7, <5>1, <6>1, NextBegins
        <5>5. InStream(cs, k, taken', expects', token', size', args', left')
            BY <2>3, <2>5, <4>4, <5>2, <5>3, <5>4 DEF InStream, u, cmd, N
        <5> QED BY <2>1, <2>2, <2>3, <5>2, <5>5 DEF ServerInv, N
      <4> QED BY <4>5, <4>6
    <3> QED BY <2>8, <3>3, <3>4, <3>5 DEF Expected
  <2>15. m + 1 < Len(d) \/ m + 1 = Len(d)
    <3>1. m \in 0..(Len(d) - 1)
        BY <2>8 DEF d
    <3> QED BY <2>10, <3>1
  <2> QED BY <2>13, <2>14, <2>15
<1> QED BY <1>1, <1>2

LEMMA ServerInvHolds == CommandsSpec => []ServerInv
BY ServerStarts, ServerNext, PTL DEF CommandsSpec

\* A server reads the commands that makeCommand was given, argument for argument
\* and byte for byte, whatever the bytes of the arguments are, however many and
\* long they are, and whatever commands follow one another.
THEOREM CommandsArriveCorrect == CommandsSpec => []CommandsArrive
<1>1. ASSUME ServerInv PROVE CommandsArrive
  <2>1. PICK k \in 0..Len(commands) : read = Prefix(commands, k)
      BY <1>1 DEF ServerInv
  <2>2. commands \in Seq(Commands) /\ refused = FALSE
      BY <1>1 DEF ServerInv
  <2>3. Len(read) = k /\ \A i \in 1..k : read[i] = commands[i]
      BY <2>1, <2>2, PrefixIs
  <2>4. k <= Len(commands)
      BY <2>2, LenProperties
  <2> QED BY <2>2, <2>3, <2>4 DEF CommandsArrive
<1> QED BY <1>1, ServerInvHolds, PTL

\* The server has each command with the last byte of it and not before.
THEOREM CompleteWithLastByteCorrect == CommandsSpec => []CompleteWithLastByte
<1>1. ASSUME ServerInv PROVE CompleteWithLastByte
  <2> DEFINE cs == commands
             w == Wires(cs)
             N == Len(cs)
  <2>1. PICK k \in 0..N :
            read = Prefix(cs, k) /\ InStream(cs, k, taken, expects, token, size, args, left)
      BY <1>1 DEF ServerInv
  <2>2. cs \in Seq(Commands) /\ taken \in Nat /\ N \in Nat
      BY <1>1, LenProperties DEF ServerInv
  <2>3. Len(read) = k
      BY <2>1, <2>2, PrefixIs
  <2>4. /\ w \in Seq(Seq(Char)) /\ Len(w) = N
        /\ \A i \in 0..N : Until(w, i) \in Nat /\ EndOf(i) = Until(w, i)
      BY <2>2, WiresAre, StreamIs
  <2>5. /\ taken >= Until(w, k)
        /\ k < N => taken < Until(w, k + 1)
    <3>1. CASE k = N
        BY <2>1, <2>2, <2>4, <3>1 DEF InStream
    <3>2. CASE k # N
      <4> DEFINE cmd == cs[k + 1]
                 u == Until(w, k)
      <4>1. k \in 0..(N - 1) /\ k + 1 \in 1..N /\ u \in Nat
          BY <2>2, <2>4, <3>2
      <4>2. PICK n \in 0..(Len(cmd) - 1) : \E m \in 0..(Len(Due(cmd, expects, n)) - 1) :
                expects \in Expected /\ taken - u = DueAt(cmd, expects, n) + m
          BY <2>1, <3>2 DEF InStream, InCommand
      <4>3. PICK m \in 0..(Len(Due(cmd, expects, n)) - 1) :
                expects \in Expected /\ taken - u = DueAt(cmd, expects, n) + m
          BY <4>2
      <4>4. PlaceOfByte(cs, k, expects, n, m, taken)
          BY <2>2, <4>1, <4>2, <4>3 DEF PlaceOfByte
      <4>5. taken < Until(w, k + 1)
          BY <4>4, NextByte
      <4>6. DueAt(cmd, expects, n) \in Nat /\ m \in Nat
        <5>1. cmd \in Seq(Seq(Char))
            BY <2>2, <4>1, WiresAre
        <5>2. DueAt(cmd, expects, n) \in Nat /\ Len(Due(cmd, expects, n)) \in Nat
            BY <4>2, <5>1, DueIs
        <5> QED BY <5>2
      <4> HIDE DEF u
      <4>7. taken >= u
          BY <2>2, <4>1, <4>3, <4>6
      <4> QED BY <4>5, <4>7 DEF u
    <3> QED BY <3>1, <3>2
  <2> HIDE DEF w, cs, N
  <2>6. ASSUME NEW i \in 1..N PROVE k >= i <=> taken >= Until(w, i)
    <3>1. i \in 0..N /\ i \in Nat /\ k \in Nat /\ Until(w, i) \in Nat /\ Until(w, k) \in Nat
        BY <2>2, <2>4
    <3>2. CASE k >= i
      <4>1. Until(w, i) <= Until(w, k)
          BY <2>4, <3>1, <3>2, UntilMonotone
      <4> QED BY <2>2, <2>5, <3>1, <3>2, <4>1
    <3>3. CASE ~(k >= i)
      <4>1. k < N /\ k + 1 \in 0..N /\ k + 1 <= i
          BY <2>2, <3>1, <3>3
      <4>2. Until(w, k + 1) <= Until(w, i) /\ Until(w, k + 1) \in Nat
          BY <2>4, <3>1, <4>1, UntilMonotone
      <4> QED BY <2>2, <2>5, <3>1, <3>3, <4>1, <4>2
    <3> QED BY <3>2, <3>3
  <2>7. \A i \in 1..N : EndOf(i) = Until(w, i)
    <3>1. \A i \in 1..N : i \in 0..N
        BY <2>2
    <3> QED BY <2>4, <3>1
  <2> QED BY <2>3, <2>6, <2>7 DEF CompleteWithLastByte, N, cs
<1> QED BY <1>1, ServerInvHolds, PTL
=============================================================================
