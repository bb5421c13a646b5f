-------------------------- MODULE CommandEncoding --------------------------
(***************************************************************************)
(* What the client puts on the wire for a command (makeCommand), and       *)
(* whether the server reads from it what the caller meant.                 *)
(*                                                                         *)
(* The client sends some commands one after the other, as asyncWrite does  *)
(* with what is queued and pipelined() with the commands of a pipeline: no *)
(* byte stands between two of them.  The server is not in the repository:  *)
(* it reads the stream byte by byte, as the protocol tells it to, a line   *)
(* with the number of arguments, and for each argument a line with its     *)
(* size and as many bytes.  One action is one byte.                        *)
(*                                                                         *)
(* A command is the sequence of its arguments, the first its name, and an  *)
(* argument the sequence of its bytes, whichever way it was given.         *)
(*                                                                         *)
(* An operator with the comment `altered' is the one after it with a       *)
(* mistake put in, for checking that the properties notice; nothing here   *)
(* uses it.                                                                *)
(***************************************************************************)
EXTENDS RespBytes

Seqs == INSTANCE SequencesExt

CONSTANTS
    Commands,     \* the commands that may be sent
    MaxCommands   \* bound: commands in a stream

ASSUME CommandsAssumption == Commands \subseteq Seq(Seq(Char)) \ {<<>>}
ASSUME MaxCommandsAssumption == MaxCommands \in Nat

VARIABLES
    commands,     \* what the client sends
    taken,        \* bytes of it the server has read
    expects,      \* what the server reads: "count", "size" or "bytes"
    token,        \* the bytes of that it has
    size,         \* the size of the argument, when it expects bytes
    args, left,   \* the arguments of the command it has, and how many are to come
    read,         \* the commands it has read
    refused       \* it met bytes that are no command, and reads no more

server == <<expects, token, size, args, left, read, refused>>
requests == <<commands, taken, server>>
-----------------------------------------------------------------------------
(* The client                                                              *)

SizeLine(mark, n) == <<mark>> \o Decimal[n] \o CRLF

\* altered
ItemWithoutEnd(item) == SizeLine("$", Len(item)) \o item

\* altered
ItemUpToNul(item) ==
    LET nul == {i \in 1..Len(item) : item[i] = "NUL"}
        end == IF nul = {} THEN Len(item)
               ELSE (CHOOSE i \in nul : \A j \in nul : i <= j) - 1
    IN  SizeLine("$", end) \o item \o CRLF

Item(item) == SizeLine("$", Len(item)) \o item \o CRLF

makeCommand(items) ==
    SizeLine("*", Len(items)) \o Seqs!FlattenSeq([i \in 1..Len(items) |-> Item(items[i])])

\* The buffers of the commands, written one after the other.
Stream == Seqs!FlattenSeq([k \in 1..Len(commands) |-> makeCommand(commands[k])])

EndOf(k) == Len(Seqs!FlattenSeq([i \in 1..k |-> makeCommand(commands[i])]))
-----------------------------------------------------------------------------
(* The server                                                              *)

ServerInit ==
    /\ taken = 0 /\ expects = "count" /\ token = <<>> /\ size = 0
    /\ args = <<>> /\ left = 0 /\ read = <<>> /\ refused = FALSE

CommandsInit ==
    ServerInit /\ \E n \in 1..MaxCommands : commands \in [1..n -> Commands]

Ends(line) == Len(line) >= 2 /\ SubSeq(line, Len(line) - 1, Len(line)) = CRLF

NumberOf(digits) ==
    LET value[i \in 0..Len(digits)] ==
            IF i = 0 THEN 0 ELSE value[i - 1] * 10 + DigitValue[digits[i]]
    IN  value[Len(digits)]

\* The number in a line, or -1 when it is not one of the kind that mark begins.
NumberIn(line, mark) ==
    LET digits == SubSeq(line, 2, Len(line) - 2)
    IN  IF /\ Head(line) = mark /\ digits # <<>>
           /\ \A i \in 1..Len(digits) : digits[i] \in Digit
        THEN NumberOf(digits) ELSE -1

Refuse == refused' = TRUE /\ UNCHANGED <<expects, token, size, args, left, read>>
More(t) == token' = t /\ UNCHANGED <<expects, size, args, left, read, refused>>

ReadCount(t) ==
    LET n == NumberIn(t, "*")
    IN  IF n < 1 THEN Refuse
        ELSE /\ expects' = "size" /\ token' = <<>> /\ left' = n
             /\ UNCHANGED <<size, args, read, refused>>

ReadSize(t) ==
    LET n == NumberIn(t, "$")
    IN  IF n < 0 THEN Refuse
        ELSE /\ expects' = "bytes" /\ token' = <<>> /\ size' = n
             /\ UNCHANGED <<args, left, read, refused>>

ReadArgument(t) ==
    LET all == Append(args, SubSeq(t, 1, size))
    IN  IF ~Ends(t) THEN Refuse
        ELSE /\ token' = <<>> /\ left' = left - 1
             /\ IF left = 1
                THEN /\ expects' = "count" /\ args' = <<>> /\ read' = Append(read, all)
                ELSE /\ expects' = "size" /\ args' = all /\ UNCHANGED read
             /\ UNCHANGED <<size, refused>>

\* The bytes t are all of what the server expects.
Whole(t) == IF expects = "bytes" THEN Len(t) = size + 2 ELSE Ends(t)

ReadByte ==
    /\ taken < Len(Stream) /\ ~refused
    /\ taken' = taken + 1 /\ UNCHANGED commands
    /\ LET t == Append(token, Stream[taken + 1])
       IN  \/ ~Whole(t) /\ More(t)
           \/ Whole(t) /\ expects = "count" /\ ReadCount(t)
           \/ Whole(t) /\ expects = "size" /\ ReadSize(t)
           \/ Whole(t) /\ expects = "bytes" /\ ReadArgument(t)

CommandsSpec == CommandsInit /\ [][ReadByte]_requests
-----------------------------------------------------------------------------
\* The server reads the commands the caller meant, argument for argument and
\* byte for byte: an argument that is empty, or full of CR, LF, NUL or what looks
\* like the protocol, comes through, also with another command right behind.
CommandsArrive ==
    ~refused /\ Len(read) <= Len(commands) /\ \A k \in 1..Len(read) : read[k] = commands[k]

\* The server has a command with the last byte of it and not before, so that a
\* client that sent it and waits gets its reply, and a write that stops in the
\* middle of a command leaves one that the server does not execute.
CompleteWithLastByte ==
    \A k \in 1..Len(commands) : Len(read) >= k <=> taken >= EndOf(k)
=============================================================================
