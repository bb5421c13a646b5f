---------------------------- MODULE RespGrammar ----------------------------
(***************************************************************************)
(* Which replies a server sends, for streams of any replies: the theorems  *)
(* about the parser assume no more of them.  The protocol is not in the    *)
(* repository.                                                             *)
(***************************************************************************)
EXTENDS RespParser

\* A well-formed reply, with its meaning: a line of text, a number that fits a
\* long, a bulk string of any bytes whose size does, or a nil.
IsReply(r) ==
    LET s == r.means.chars
        n == r.means.num
    IN  \/ /\ s \in Seq(Char) /\ \A i \in 1..Len(s) : IsTextChar(s[i])
           /\ r \in {SimpleReply(s), ErrorReply(s)}
        \/ n \in -Half..(Half - 1) /\ r = IntegerReply(n)
        \/ s \in Seq(Char) /\ Len(s) < Half /\ r = BulkReply(s)
        \/ r \in {NilReply("$"), NilReply("*")}

\* What is none: the line of the mark w begins with, from its second byte to the
\* e-th, and the CR and LF after it.
InLine(mark, ch) == IF mark \in {"+", "-"} THEN IsTextChar(ch) ELSE IsSizeChar(ch)
Least(mark)      == IF mark \in {"+", "-"} THEN 1 ELSE 2
Run(w, e)    == e \in Nat \ {0} /\ w[1] \in Mark /\ \A i \in 2..e : InLine(w[1], w[i])
CRAt(w, e)   == Run(w, e) /\ e >= Least(w[1]) /\ w[e + 1] = "CR"
Header(w, e) == CRAt(w, e) /\ w[e + 2] = "LF"
Sized(w)     == w[1] \in {"$", "*"}

Piece(w, i, n) == [j \in 1..n |-> w[i + j]]
SizeIn(w, e)   == bufferToLong(Piece(w, 1, e - 1))

\* The o-th byte cannot be there: a first byte that is no mark, a character that
\* is none of the line's, a CR with no LF after it, a size below -1, or a body
\* that no CR and LF follow.
WrongBody(w, e, n, o) ==
    \/ n < -1 /\ o = e + 2
    \/ n >= 0 /\ o = e + n + 3 /\ w[o] # "CR"
    \/ n >= 0 /\ o = e + n + 4 /\ w[o - 1] = "CR" /\ w[o] # "LF"

WrongAt(w, o) ==
    \/ o = 1 /\ w[1] \notin Mark
    \/ \E e \in 1..(o - 1) :
           /\ Run(w, e) /\ o = e + 1 /\ ~InLine(w[1], w[o])
           /\ w[o] = "CR" => e < Least(w[1])
    \/ \E e \in 1..(o - 2) :
           /\ CRAt(w, e)
           /\ \/ o = e + 2 /\ w[o] # "LF"
              \/ Sized(w) /\ w[e + 2] = "LF" /\ WrongBody(w, e, SizeIn(w, e), o)

ASSUME ProtocolAssumption ==
    \A r \in Replies :
        IF r.means.kind = "malformed" THEN \E o \in 1..Len(r.wire) : WrongAt(r.wire, o)
                                      ELSE IsReply(r)
=============================================================================
