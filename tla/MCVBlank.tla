------------------------------ MODULE MCVBlank ------------------------------
(* A short frame: a line of eleven dots keeps what 341 dots are to a CPU   *)
(* cycle of three, and odd frames walk through every alignment of the five *)
(* cycles in which the PAL machine makes its sixteen dots.                 *)
EXTENDS VBlank, TLC

Lines(nmi, preRender) == [nmi |-> nmi, preRender |-> preRender]
LinesOf == "NTSC" :> Lines(1, 2) @@ "PAL" :> Lines(1, 4) @@ "DENDY" :> Lines(3, 4)

MCNmiLine == [r \in Regions |-> LinesOf[r].nmi]
MCPreRenderLine == [r \in Regions |-> LinesOf[r].preRender]
MCTotalLines == [r \in Regions |-> LinesOf[r].preRender + 1]
=============================================================================
