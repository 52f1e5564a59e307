---------------------------- MODULE MCSpriteEval ----------------------------
EXTENDS SpriteEval

Both(a) == {<<a, FALSE>>, <<a, TRUE>>}
YBytes == {4 * s : s \in 0..Sprites - 1}
OfLines(ys) == {UNION {Both(a) : a \in set} : set \in ys}
(* From no sprite on the line to all of them; and with the slots full, any *)
(* one byte that reads as on it, or an attribute that does so only before  *)
(* it is cut.                                                              *)
MCNearSets ==
  OfLines({{12}, {0, 4}, {4, 8, 12}, YBytes})
    \cup OfLines({{0, 4, a} : a \in {9, 14}})
    \cup {UNION {Both(a) : a \in {0, 4}} \cup {<<10, FALSE>>}}
=============================================================================
