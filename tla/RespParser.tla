----------------------------- MODULE RespParser -----------------------------
(***************************************************************************)
(* The reply parser (RedisParser::parseChunk): a state machine over the    *)
(* bytes of the connection, called on one chunk after another as reads     *)
(* deliver them and again on the rest of a chunk after each reply it       *)
(* completed, as asyncRead and syncReadResponse call it.                   *)
(*                                                                         *)
(* The stream is what a server sends: some replies, each in its encoding,  *)
(* one after the other, cut into chunks anywhere.  What the parser must    *)
(* return is the sequence of these replies.                                *)
(*                                                                         *)
(* One action is one case of the switch on one byte (on a run of bytes     *)
(* where the code copies the bytes of a bulk string at once).  Of the      *)
(* bytes only those the cases tell apart are kept: the reply marks, the    *)
(* digits, CR, LF, and a few others.                                       *)
(*                                                                         *)
(* An operator with the comment `altered' is the one after it with a       *)
(* mistake put in, for checking that the properties notice; nothing here   *)
(* uses it.                                                                *)
(***************************************************************************)
EXTENDS RespBytes

CONSTANTS
    LongBits,     \* the width of a long int
    Replies,      \* the replies of which streams are made: see Reply
    MaxReplies    \* bound: replies in a stream

\* Numbers from -Half to Half - 1.
Half == 2^(LongBits - 1)

ASSUME LongBitsAssumption == LongBits \in Nat \ {0} /\ Half \in Nat \ {0}
ASSUME RepliesAssumption ==
    \A r \in Replies : r = [wire |-> r.wire, means |-> r.means]
                       /\ r.wire \in Seq(Char) \ {<<>>}
ASSUME MaxRepliesAssumption == MaxReplies \in Nat

VARIABLES
    replies,    \* what the server sends; the stream is their encodings
    hi,         \* bytes of the stream delivered so far
    pos,        \* bytes of the stream the parser consumed
    st,         \* Statement: the local `state', kept in `states' between calls
    buf,        \* the characters of the value being read
    bulkSize,   \* bytes of the bulk string still to come
    out,        \* values returned with Completed
    rejected    \* parse() returned Error, after which nothing is read

vars == <<replies, hi, pos, st, buf, bulkSize, out, rejected>>
-----------------------------------------------------------------------------
\* RedisValue, as far as the parser makes it: `num' is the integer, or the
\* number of elements of an array.
Value(kind, chars, num) == [kind |-> kind, chars |-> chars, num |-> num]
Nil         == Value("null", <<>>, 0)
StringOf(s) == Value("string", s, 0)
ErrorOf(s)  == Value("error", s, 0)
IntOf(n)    == Value("int", <<>>, n)
ArrayOf(n)  == Value("array", <<>>, n)
-----------------------------------------------------------------------------
(* What a server sends: the encodings of the protocol, not in the          *)
(* repository but for the strings of its tests.                            *)

Line(mark, chars) == <<mark>> \o chars \o CRLF
Reply(wire, means) == [wire |-> wire, means |-> means]

SimpleReply(s)  == Reply(Line("+", s), StringOf(s))
ErrorReply(s)   == Reply(Line("-", s), ErrorOf(s))
IntegerReply(n) == Reply(Line(":", Signed(n)), IntOf(n))
BulkReply(s)    ==
    Reply(Line("$", Signed(Len(s))) \o s \o <<"CR", "LF">>, StringOf(s))
NilReply(mark)  == Reply(Line(mark, Signed(-1)), Nil)
Malformed(wire) == Reply(wire, Value("malformed", <<>>, 0))
\* An array of replies none of which is itself an array.
ArrayReply(rs)  ==
    LET wire[i \in 0..Len(rs)] == IF i = 0 THEN <<>> ELSE wire[i - 1] \o rs[i].wire
    IN  Reply(Line("*", Signed(Len(rs))) \o wire[Len(rs)], ArrayOf(Len(rs)))

\* Where the encoding of the k-th reply ends, and the byte at a place.
End[k \in 0..Len(replies)] ==
    IF k = 0 THEN 0 ELSE End[k - 1] + Len(replies[k].wire)
ByteAt(i) ==
    LET k == CHOOSE k \in 1..Len(replies) : End[k - 1] < i /\ i <= End[k]
    IN  replies[k].wire[i - End[k - 1]]
Bytes(i, j) == [n \in 1..(j - i + 1) |-> ByteAt(i + n - 1)]

\* Nothing was delivered yet.
ParserInit ==
    /\ hi = 0 /\ pos = 0
    /\ st = "Start" /\ buf = <<>> /\ bulkSize = 0
    /\ out = <<>> /\ rejected = FALSE

Init ==
    ParserInit /\ \E n \in 1..MaxReplies : replies \in [1..n -> Replies]

\* A read returns the next n bytes of the stream.
Deliver(n) ==
    /\ pos = hi /\ ~rejected
    /\ hi + n <= End[Len(replies)]
    /\ hi' = hi + n
    /\ UNCHANGED <<replies, pos, st, buf, bulkSize, out, rejected>>
-----------------------------------------------------------------------------
(* The parser                                                              *)

\* isChar and not isControlChar: a byte above 127 is a negative char.
IsTextChar(ch) == ch \notin Control \cup {"8bit"}

\* altered
IsDigit(ch) == ch \in Digit

IsSizeChar(ch) == ch \in Digit \cup {"-"}
MinOf(i, j) == IF i < j THEN i ELSE j

\* What overflows wraps.
Long(n) == ((n + Half) % (2 * Half)) - Half

\* The loop of bufferToLong.
Magnitude(digits) ==
    LET value[i \in 0..Len(digits)] ==
            IF i = 0 THEN 0 ELSE Long(value[i - 1] * 10 + DigitValue[digits[i]])
    IN  value[Len(digits)]

bufferToLong(str) ==
    IF str # <<>> /\ Head(str) = "-" THEN Long(-Magnitude(Tail(str))) ELSE Magnitude(str)

\* The case of statement s, on the next byte of the chunk.
In(s) == st = s /\ pos < hi /\ ~rejected
c     == ByteAt(pos + 1)

Consume(n)   == pos' = pos + n /\ UNCHANGED <<replies, hi>>
GoTo(s)      == st' = s /\ UNCHANGED <<out, rejected>>
Complete(v)  == st' = "Start" /\ out' = Append(out, v) /\ UNCHANGED rejected
Error        == st' = "Start" /\ rejected' = TRUE /\ UNCHANGED out

\* A line of characters that a CR ends.
TextLine(s, end) ==
    /\ In(s) /\ Consume(1) /\ UNCHANGED bulkSize
    /\ \/ c = "CR" /\ GoTo(end) /\ UNCHANGED buf
       \/ c # "CR" /\ IsTextChar(c) /\ buf' = Append(buf, c) /\ GoTo(s)
       \/ c # "CR" /\ ~IsTextChar(c) /\ Error /\ UNCHANGED buf

\* altered
NumberLineMayBeEmpty(s, end) ==
    /\ In(s) /\ Consume(1) /\ UNCHANGED bulkSize
    /\ \/ c = "CR" /\ GoTo(end) /\ UNCHANGED buf
       \/ IsSizeChar(c) /\ buf' = Append(buf, c) /\ GoTo(s)
       \/ c # "CR" /\ ~IsSizeChar(c) /\ Error /\ UNCHANGED buf

\* A line of digits that a CR ends.
NumberLine(s, end) ==
    /\ In(s) /\ Consume(1) /\ UNCHANGED bulkSize
    /\ \/ c = "CR" /\ buf # <<>> /\ GoTo(end) /\ UNCHANGED buf
       \/ IsSizeChar(c) /\ buf' = Append(buf, c) /\ GoTo(s)
       \/ /\ IF c = "CR" THEN buf = <<>> ELSE ~IsSizeChar(c)
          /\ Error /\ UNCHANGED buf

\* The LF after a CR: then is what it leads to, an Error anything else.
Newline(s, then) == In(s) /\ IF c = "LF" THEN then
                             ELSE Error /\ Consume(1) /\ UNCHANGED <<buf, bulkSize>>

\* An array's mark leads to the size of a bulk string.
Start ==
    /\ In("Start") /\ Consume(1) /\ buf' = <<>>
    /\ bulkSize' = IF c = "*" THEN 0 ELSE bulkSize
    /\ CASE c = "+" -> GoTo("String")
         [] c = "-" -> GoTo("ErrorString")
         [] c = ":" -> GoTo("Integer")
         [] c \in {"$", "*"} -> GoTo("BulkSize")
         [] OTHER -> Error

String      == TextLine("String", "StringLF")
ErrorString == TextLine("ErrorString", "ErrorLF")
BulkSize    == NumberLine("BulkSize", "BulkSizeLF")
Integer     == NumberLine("Integer", "IntegerLF")

StringLF == Newline("StringLF",
    Complete(StringOf(buf)) /\ Consume(1) /\ UNCHANGED <<buf, bulkSize>>)
ErrorLF == Newline("ErrorLF",
    Complete(ErrorOf(buf)) /\ Consume(1) /\ UNCHANGED <<buf, bulkSize>>)
IntegerLF == Newline("IntegerLF",
    /\ Complete(IntOf(bufferToLong(buf))) /\ Consume(1)
    /\ buf' = <<>> /\ UNCHANGED bulkSize)

\* altered
WholeOf(n) == n

\* How many of the n bytes of a bulk string are in the chunk.
AvailableOf(n) == MinOf(n, hi - pos - 1)

\* altered
CopyFirstToBulk(n) ==
    LET canRead == AvailableOf(n)
    IN  /\ buf' = Bytes(pos + 2, pos + 1 + canRead)
        /\ bulkSize' = n - canRead
        /\ Consume(1 + canRead)
        /\ GoTo("Bulk")

\* They are copied at once.
CopyFirst(n) ==
    LET canRead == AvailableOf(n)
    IN  /\ buf' = Bytes(pos + 2, pos + 1 + canRead)
        /\ bulkSize' = n - canRead
        /\ Consume(1 + canRead)
        /\ GoTo(IF n > canRead THEN "Bulk" ELSE "BulkCR")

BulkSizeLF == Newline("BulkSizeLF",
    LET n == bufferToLong(buf)
    IN  \/ /\ n <= 0
           /\ buf' = <<>> /\ bulkSize' = n /\ Consume(1)
           /\ CASE n = -1 -> Complete(Nil)
                [] n = 0 -> GoTo("BulkCR")
                [] OTHER -> Error
        \/ n > 0 /\ CopyFirst(n))

\* altered
BulkSkipsFirst ==
    LET canRead == MinOf(hi - pos, bulkSize)
    IN  /\ In("Bulk")
        /\ buf' = buf \o Bytes(pos + 2, pos + canRead)
        /\ bulkSize' = bulkSize - canRead
        /\ Consume(canRead)
        /\ GoTo(IF bulkSize = canRead THEN "BulkCR" ELSE "Bulk")

Bulk ==
    LET canRead == MinOf(hi - pos, bulkSize)
    IN  /\ In("Bulk")
        /\ buf' = buf \o Bytes(pos + 1, pos + canRead)
        /\ bulkSize' = bulkSize - canRead
        /\ Consume(canRead)
        /\ GoTo(IF bulkSize = canRead THEN "BulkCR" ELSE "Bulk")

\* altered
BulkCRCompletes ==
    /\ In("BulkCR") /\ Consume(1) /\ UNCHANGED <<buf, bulkSize>>
    /\ IF c = "CR" THEN Complete(StringOf(buf)) ELSE Error

BulkCR ==
    /\ In("BulkCR") /\ Consume(1) /\ UNCHANGED <<buf, bulkSize>>
    /\ IF c = "CR" THEN GoTo("BulkLF") ELSE Error

BulkLF == Newline("BulkLF",
    Complete(StringOf(buf)) /\ Consume(1) /\ UNCHANGED <<buf, bulkSize>>)

parseChunk ==
    \/ Start \/ String \/ StringLF \/ ErrorString \/ ErrorLF
    \/ Integer \/ IntegerLF
    \/ BulkSize \/ BulkSizeLF \/ Bulk \/ BulkCR \/ BulkLF

Next == parseChunk \/ \E n \in 1..(End[Len(replies)] - hi) : Deliver(n)

Spec == Init /\ [][Next]_vars
-----------------------------------------------------------------------------
Statement == {"Start", "String", "StringLF", "ErrorString", "ErrorLF", "Integer",
              "IntegerLF", "BulkSize", "BulkSizeLF", "Bulk", "BulkCR", "BulkLF"}

\* The variables hold values of their kinds, and the parser never reads beyond
\* the bytes delivered, whatever size a bulk string claims and wherever it is
\* cut.
TypeOK ==
    /\ hi \in 0..End[Len(replies)] /\ pos \in 0..hi
    /\ st \in Statement /\ bulkSize \in Int /\ rejected \in BOOLEAN
    /\ \A i \in 1..Len(buf) : buf[i] \in Char

\* What the parser returned is, value by value, what the server meant, wherever
\* the stream was cut and whatever bytes the bulk strings hold: CR, LF and the
\* marks of replies in them are taken for nothing else.
Faithful ==
    Len(out) <= Len(replies) /\ \A i \in 1..Len(out) : out[i] = replies[i].means

\* Between two replies the parser has consumed exactly the bytes of those it
\* returned, so that the next call begins with the mark of the next reply.
ExactConsumption == st = "Start" /\ ~rejected => pos = End[Len(out)]

IsMalformed(i) == replies[i].means.kind = "malformed"

\* Only a malformed reply is rejected, and the one after those returned.
RejectsOnlyMalformed ==
    rejected => Len(out) < Len(replies) /\ IsMalformed(Len(out) + 1)

\* With the last byte of a reply its value is out, without waiting for a byte
\* of the next one (the server may never send another); a malformed reply is
\* rejected by then.
Prompt ==
    \A k \in 1..Len(replies) :
        pos >= End[k] => IF IsMalformed(k) THEN rejected ELSE Len(out) >= k

\* assert(bulkSize > 0) at the case Bulk, also when the chunk ends right after
\* the size or right before the last byte of the string.
BulkAssert == st = "Bulk" => bulkSize > 0
=============================================================================
