--------------------------- MODULE CommandChannel ---------------------------
(***************************************************************************)
(* What a client of redis promises whoever gives it commands: each command *)
(* that is answered is given its own reply, and commands are answered in   *)
(* the order they were issued.  Both clients keep this on a connection on  *)
(* which nothing has happened that they do not promise to survive;         *)
(* `warranted' says so, and each client says for itself what that is.      *)
(* Nothing here is code: AsyncChannel and SyncChannel show that the two    *)
(* clients implement it.                                                   *)
(***************************************************************************)
EXTENDS Naturals, Sequences

CONSTANT MaxCmd   \* bound: commands issued in a behaviour

VARIABLES
    next,         \* next command that will be issued
    pending,      \* commands issued and not answered, in order
    got,          \* what each command was answered, 0 before that
    warranted

vars == <<next, pending, got, warranted>>

Init ==
    /\ next = 1 /\ pending = <<>>
    /\ got = [c \in 1..MaxCmd |-> 0]
    /\ warranted = TRUE

\* n commands are issued.
Issue(n) ==
    /\ warranted
    /\ next' = next + n
    /\ pending' = pending \o [i \in 1..n |-> next + i - 1]
    /\ UNCHANGED <<got, warranted>>

\* The n oldest are answered, each with its own reply.
Answer(n) ==
    /\ warranted
    /\ pending' = SubSeq(pending, n + 1, Len(pending))
    /\ got' = [c \in 1..MaxCmd |->
                 IF \E i \in 1..n : pending[i] = c THEN c ELSE got[c]]
    /\ UNCHANGED <<next, warranted>>

\* The application gives up the connection, and the replies it waits for.
Abandon ==
    /\ warranted
    /\ pending' = <<>>
    /\ UNCHANGED <<next, got, warranted>>

\* Whatever happens where nothing is warranted, no command is answered twice or
\* before it was issued.
Unwarranted ==
    /\ ~(warranted /\ warranted')
    /\ warranted' => pending' = <<>> /\ UNCHANGED <<next, got>>
    /\ next' >= next
    /\ \A c \in 1..MaxCmd : got'[c] # got[c] => got[c] = 0 /\ c < next

Next ==
    \/ \E n \in 1..MaxCmd : Issue(n)
    \/ \E n \in 1..Len(pending) : Answer(n)
    \/ Abandon
    \/ Unwarranted

Spec == Init /\ [][Next]_vars
=============================================================================
