------------------------------- MODULE MCWire -------------------------------
(* The two directions of a connection: commands to a server, and replies    *)
(* from one.  Neither takes notice of the other, so a behaviour has one.    *)
EXTENDS MCRespParser, RespGrammar, CommandEncoding

\* A name alone; arguments that are empty, binary, like the protocol or like the
\* end of their own item; sizes and counts of two digits.
MCCommands ==
    { <<<<"a">>>>, <<<<"a">>, <<>>>>, <<<<"a", "a">>, <<>>, <<"CR", "LF">>>>,
      <<<<"a">>, <<"a", "NUL", "8bit">>>>,
      <<<<"a">>, <<"CR", "LF", "$", "1", "CR", "LF", "a", "CR", "LF", "*", "1">>>>,
      <<<<"a">>, <<"*", "1", "CR", "LF">>, <<"1", "0", "CR">>>>,
      [i \in 1..10 |-> IF i % 2 = 1 THEN <<"a">> ELSE <<>>] }

WireInit ==
    \/ Init /\ ServerInit /\ commands = <<>>
    \/ CommandsInit /\ ParserInit /\ replies = <<>>

WireNext ==
    \/ Next /\ UNCHANGED requests
    \/ ReadByte /\ UNCHANGED vars

WireSpec == WireInit /\ [][WireNext]_<<vars, requests>>
=============================================================================
