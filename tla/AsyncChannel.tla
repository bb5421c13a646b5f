---------------------------- MODULE AsyncChannel ----------------------------
(***************************************************************************)
(* The asynchronous client implements CommandChannel.                      *)
(***************************************************************************)
EXTENDS AsyncClient

\* A command is pending while its handler waits in the strand or in `handlers';
\* the first of those is not while it is being called.
Pending ==
    (IF frame = "reply" /\ handlers # <<>> THEN Tail(handlers) ELSE handlers)
        \o strandQ

Channel == INSTANCE CommandChannel WITH pending <- Pending, warranted <- quiet

\* The queues, buffers, parts of replies and writes that command(), the strand
\* and the two halves of the socket work with come to this: a reply is given
\* to the oldest command that waits for one and is its own, until something is
\* closed or connected while something is under way, and again after a quiet
\* disconnect; and never is a handler called twice.
ImplementsChannel == Channel!Spec
=============================================================================
