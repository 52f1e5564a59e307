---------------------------- MODULE CycleSteal ----------------------------
(***************************************************************************)
(* What the 2A03's DMA promises, without clocks, parities or phases: the   *)
(* CPU may be frozen at any time; a page asked for while it runs is copied *)
(* to the PPU byte by byte, from the first, in one uninterrupted freeze;   *)
(* and the CPU runs again only when no copy is under way.  Module DMA      *)
(* implements this specification.                                          *)
(***************************************************************************)
EXTENDS Integers, Sequences

CONSTANTS Pages, PageSize

NoPage == -1

VARIABLES
  job,       (* page asked for and not yet copied, or NoPage              *)
  claimed,   (* the copy has begun                                        *)
  written,   (* bytes of the last page asked for that the PPU has         *)
  frozen     (* the CPU is held                                           *)

vars == <<job, claimed, written, frozen>>

Init ==
  /\ job = NoPage /\ claimed = FALSE
  /\ written = << >>
  /\ frozen = FALSE

(* A page may be asked for again before its copy begins.                   *)
Request(page) ==
  /\ ~frozen
  /\ job' = page
  /\ written' = << >>
  /\ UNCHANGED <<claimed, frozen>>

(* The CPU is held, for the copy asked for or for something else.          *)
Freeze ==
  /\ ~frozen
  /\ frozen' = TRUE
  /\ claimed' = (job # NoPage)
  /\ UNCHANGED <<job, written>>

CopyByte ==
  /\ frozen /\ claimed
  /\ written' = Append(written, <<job, Len(written)>>)
  /\ IF Len(written) + 1 = PageSize
     THEN job' = NoPage /\ claimed' = FALSE
     ELSE UNCHANGED <<job, claimed>>
  /\ UNCHANGED frozen

Thaw ==
  /\ frozen /\ ~claimed
  /\ frozen' = FALSE
  /\ UNCHANGED <<job, claimed, written>>

Reset ==
  /\ job' = NoPage /\ claimed' = FALSE
  /\ written' = << >>
  /\ frozen' = FALSE

Next ==
  \/ \E page \in Pages : Request(page)
  \/ Freeze
  \/ CopyByte
  \/ Thaw
  \/ Reset

Spec == Init /\ [][Next]_vars
=============================================================================
