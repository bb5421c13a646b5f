------------------------------- MODULE Pieces -------------------------------
(***************************************************************************)
(* What both clients say of the bytes they hold: a sequence of pieces is   *)
(* what was read of a sequence of replies, of which only the last can be   *)
(* missing its end.                                                        *)
(***************************************************************************)
EXTENDS Integers, Sequences

OnlyLastCut(pieces) == \A i \in 1..(Len(pieces) - 1) : pieces[i].last

\* The replies whose end is among such pieces.
Ended(pieces) ==
    IF pieces # <<>> /\ ~pieces[Len(pieces)].last THEN Len(pieces) - 1 ELSE Len(pieces)

Completes(pieces) == [i \in 1..Ended(pieces) |-> pieces[i].of]

IsPrefixOf(s, t) == Len(s) <= Len(t) /\ SubSeq(t, 1, Len(s)) = s
=============================================================================
