---------------------------- MODULE MCRespParser ----------------------------
(* Replies to run RespParser on.                                           *)
EXTENDS RespParser

\* One-line replies, with the least and the greatest number too, bulk strings
\* whose bytes look like the protocol's own or whose size has two digits, and
\* both forms of nil.
WellFormed ==
    { SimpleReply(<<"a">>), SimpleReply(<<>>), ErrorReply(<<"a", "-">>),
      IntegerReply(0), IntegerReply(-12),
      IntegerReply(2^(LongBits - 1) - 1), IntegerReply(-(2^(LongBits - 1))),
      BulkReply(<<>>), BulkReply(<<"a">>), BulkReply(<<"CR", "LF">>),
      BulkReply(<<"a", "CR", "LF", "+", "a", "CR", "LF">>),
      BulkReply(<<"$", "1", "CR", "LF", "8bit", "CR", "LF", "NUL", ":", "1", "CR">>),
      NilReply("$"), NilReply("*") }

\* One for each error return of parseChunk that bytes can reach.
Broken ==
    { Malformed(<<"a", "CR", "LF">>),
      Malformed(<<"+", "NUL", "CR", "LF">>), Malformed(<<"+", "a", "CR", "a">>),
      Malformed(<<"-", "8bit", "CR", "LF">>), Malformed(<<"-", "a", "CR", "CR">>),
      Malformed(<<":", "CR", "LF">>), Malformed(<<":", "1", "a", "CR", "LF">>),
      Malformed(<<":", "1", "CR", "1">>),
      Malformed(<<"$", "CR", "LF">>), Malformed(<<"*", "a", "a", "CR", "LF">>),
      Malformed(<<"$", "1", "CR", "a">>), Malformed(<<"$", "-", "2", "CR", "LF">>),
      Malformed(<<"$", "1", "CR", "LF", "a", "a">>),
      Malformed(<<"$", "1", "CR", "LF", "a", "CR", "a">>) }

MCReplies == WellFormed \cup Broken

\* test_array and test_string_empty_array_1 of tests/parsertest.cpp.
ArrayReplies ==
    { ArrayReply(<<IntegerReply(1), SimpleReply(<<"a">>)>>), ArrayReply(<<>>) }
=============================================================================
