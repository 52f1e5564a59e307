---------------------------- MODULE MCPPUAddress ----------------------------
(* Name tables of two columns and two rows of tiles, with two rows of      *)
(* attributes; lines of 53 dots, which like 341 leave two on division by a *)
(* cycle's three.                                                          *)
EXTENDS PPUAddress

Ctrl(name, increment, background, sprite) ==
  [name |-> name, increment |-> increment, background |-> background, sprite |-> sprite]
MCCtrls == {Ctrl(0, 1, 0, 1), Ctrl(3, Columns, 1, 0)}
MCScrollYs == {<<0, 3>>, <<3, 6>>}
(* The last pixel row of the tiles; the last of all, in the palette.      *)
MCStarts == {Address(7, 0, 0, Rows - 1, 0), (8 * Table) - 1}
=============================================================================
