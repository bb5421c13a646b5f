---------------------------- MODULE SyncChannel ----------------------------
(***************************************************************************)
(* The synchronous client implements CommandChannel.                       *)
(***************************************************************************)
EXTENDS SyncClient

\* The commands of the call in progress are pending until it returns.
Channel == INSTANCE CommandChannel WITH pending <- cmds, warranted <- clean

\* The partial sends and reads, the rest of a buffer and the pipelines come to
\* this: a call returns to its caller the reply to each of its commands, from
\* the connect() of a clean connection until a call fails on it, and again
\* from the next clean connection; and never is a caller answered twice.
ImplementsChannel == Channel!Spec
=============================================================================
