---------------------------- MODULE StateHistory ----------------------------
(***************************************************************************)
(* What rewinding promises: a stack of whole states, as deep as MaxHistory *)
(* allows below its top, from which the newest is taken back first.  The   *)
(* session keeps no such stack: it keeps one state and the differences     *)
(* that lead back from it, and module Session implements this one.         *)
(***************************************************************************)
EXTENDS Sequences, Integers

CONSTANTS Buffers, MaxHistory

VARIABLE past   (* states at the ends of past frames, the newest last *)

Newest(seq, n) == IF Len(seq) > n THEN Tail(seq) ELSE seq

Init == past = << >>

Remember(state) == past' = Newest(Append(past, state), MaxHistory + 1)

(* The newest state is given up and the one before it comes back.          *)
Recall == Len(past) > 1 /\ past' = SubSeq(past, 1, Len(past) - 1)

Forget == past' = << >>

Next == Recall \/ Forget \/ \E state \in Buffers : Remember(state)

Spec == Init /\ [][Next]_past
=============================================================================
